---- MODULE Spec2Model ----
(***************************************************************************)
(* MIPS-lite simulator of "PROJECT SUBMIT": the instruction decoder, the   *)
(* functional executor (simulate_instruction), the FS read-execute loop    *)
(* and the two 5-stage pipeline drivers (NF: no forwarding, WF: with       *)
(* forwarding).                                                            *)
(*                                                                         *)
(* 32-bit quantities (int32_t registers, uint32_t memory words and PCs)    *)
(* are represented by their two's-complement bit pattern read as a signed  *)
(* number in -2^31 .. 2^31-1; uint32_t 0xFFFFFFF8 is the pattern -8.       *)
(* Arithmetic wraps to 32 bits (Add32, Mul32), unsigned comparisons are    *)
(* made on the pattern (ULT).                                              *)
(***************************************************************************)
EXTENDS Integers, Sequences, FiniteSets, TLC

VARIABLES
    image,                          \* the words of the memory image file
    mode,                           \* argv[2]: "FS", "NF" or "WF"
    status,                         \* "running", "done", "exited", "crashed"
    state,                          \* MachineState: pc, registers, memory
    register_written,               \* indices i with register_written[i] = 1
    memory_changed,                 \* indices i with memory_changed[i] = 1
    total_instructions,
    arithmetic_instructions,
    logical_instructions,
    memory_access_instructions,
    control_transfer_instructions,
    pipeline,                       \* PipelineRegister pipeline[5]
    pipeline_pc,
    pipeline_halt_seen,
    clock_cycles,
    total_stalls,
    total_flushes,
    commits,                        \* fetch addresses retired in this run, in order
    stop_reason,                    \* how this run's loop was left, "" while it runs
    final                           \* per mode: what the finished run reported

vars == <<image, mode, status, state, register_written, memory_changed,
          total_instructions, arithmetic_instructions, logical_instructions,
          memory_access_instructions, control_transfer_instructions,
          pipeline, pipeline_pc, pipeline_halt_seen, clock_cycles,
          total_stalls, total_flushes, commits, stop_reason, final>>

----------------------------------------------------------------------------
(* Program constants *)

WORD_SIZE == 4
MAX_MEMORY_LINES == 1024
PIPELINE_DEPTH == 5
CYCLE_CAP_NF == 200000
CYCLE_CAP_WF == 100000

ADD == 0
ADDI == 1
SUB == 2
SUBI == 3
MUL == 4
MULI == 5
OR == 6
ORI == 7
AND == 8
ANDI == 9
XOR == 10
XORI == 11
LDW == 12
STW == 13
BZ == 14
BEQ == 15
JR == 16
HALT == 17
NOP == 18

R_TYPE == "R_TYPE"
I_TYPE == "I_TYPE"
INVALID_TYPE == "INVALID_TYPE"

\* enum pipeline_stages { IF = 0, ID, EX, MEM, WB }
S_IF == 0
ID == 1
EX == 2
MEM == 3
WB == 4

MemBytes == MAX_MEMORY_LINES * WORD_SIZE

----------------------------------------------------------------------------
(* 32-bit arithmetic on bit patterns *)

\* the low 16 bits of x and the signed upper half, x = Hi16(x) * 65536 + Lo16(x)
Lo16(x) == x % 65536
Hi16(x) == x \div 65536

\* (int16_t) v: the low 16 bits of v, sign-extended
SignExtend16(v) == (((v % 65536) + 32768) % 65536) - 32768

\* a + b modulo 2^32
Add32(a, b) ==
    LET lo == Lo16(a) + Lo16(b)
        hi == Hi16(a) + Hi16(b) + (lo \div 65536)
    IN  SignExtend16(hi) * 65536 + (lo % 65536)

\* a - b modulo 2^32
Sub32(a, b) == Add32(Add32(a, (-1) - b), 1)

\* x * y for x, y in 0..65535, as a 32-bit value: x is split into bytes so
\* that no partial product leaves the 32-bit range
Mul16(x, y) ==
    Add32(IF (x \div 256) * y < 8388608
          THEN ((x \div 256) * y) * 256
          ELSE ((x \div 256) * y - 16777216) * 256,
          (x % 256) * y)

\* a * b modulo 2^32, from the 16-bit halves of a and b
Mul32(a, b) ==
    Add32(Mul16(Lo16(a), Lo16(b)),
          SignExtend16(Lo16(Mul16(Hi16(a) % 65536, Lo16(b)))
                       + Lo16(Mul16(Lo16(a), Hi16(b) % 65536))) * 65536)

RECURSIVE Bitwise(_, _, _, _)
Bitwise(a, b, n, f) ==
    IF n = 1 THEN 0 - f[a % 2][b % 2]
    ELSE f[a % 2][b % 2] + 2 * Bitwise(a \div 2, b \div 2, n - 1, f)

OrBit  == [x \in 0..1 |-> [y \in 0..1 |-> IF x + y > 0 THEN 1 ELSE 0]]
AndBit == [x \in 0..1 |-> [y \in 0..1 |-> x * y]]
XorBit == [x \in 0..1 |-> [y \in 0..1 |-> (x + y) % 2]]

Or32(a, b)  == Bitwise(a, b, 32, OrBit)
And32(a, b) == Bitwise(a, b, 32, AndBit)
Xor32(a, b) == Bitwise(a, b, 32, XorBit)

\* a < b for uint32_t values
ULT(a, b) == IF (a < 0) = (b < 0) THEN a < b ELSE b < 0

\* C's address / 4 for a signed address: truncation toward zero
CDiv4(a) == IF a >= 0 THEN a \div 4 ELSE (a + 3) \div 4

----------------------------------------------------------------------------
(* Memory: uint32_t memory[1024], zero after memset.  The function holds   *)
(* the words that were loaded or stored; every other word reads 0.         *)

MemRead(mem, i) == IF i \in DOMAIN mem THEN mem[i] ELSE 0

MemWrite(mem, i, v) ==
    [j \in (DOMAIN mem) \cup {i} |-> IF j = i THEN v ELSE mem[j]]

MemEq(m1, m2) ==
    \A i \in (DOMAIN m1) \cup (DOMAIN m2) : MemRead(m1, i) = MemRead(m2, i)

ZeroRegisters == [r \in 0..31 |-> 0]

----------------------------------------------------------------------------
(* instruction_decoder.c *)

get_instruction_type(opcode) ==
    IF opcode \in {ADD, SUB, MUL, OR, AND, XOR} THEN R_TYPE
    ELSE IF opcode \in {ADDI, SUBI, MULI, ORI, ANDI, XORI, LDW, STW,
                        BZ, BEQ, JR, HALT, NOP} THEN I_TYPE
    ELSE INVALID_TYPE

\* a fault to test the decoder claim against: the immediate is taken as an
\* unsigned 16-bit value
decode_instruction_unsigned(instr) ==
    LET opcode == (instr \div 67108864) % 64
        type   == get_instruction_type(opcode)
    IN  [opcode |-> opcode, type |-> type,
         rs |-> IF type = INVALID_TYPE THEN 0 ELSE (instr \div 2097152) % 32,
         rt |-> IF type = INVALID_TYPE THEN 0 ELSE (instr \div 65536) % 32,
         rd |-> IF type = R_TYPE THEN (instr \div 2048) % 32 ELSE 0,
         immediate |-> IF type = I_TYPE THEN instr % 65536 ELSE 0]

decode_instruction(instr) ==
    LET opcode == (instr \div 67108864) % 64
        type   == get_instruction_type(opcode)
    IN  IF type = R_TYPE THEN
            [opcode |-> opcode, type |-> type,
             rs |-> (instr \div 2097152) % 32,
             rt |-> (instr \div 65536) % 32,
             rd |-> (instr \div 2048) % 32,
             immediate |-> 0]
        ELSE IF type = I_TYPE THEN
            [opcode |-> opcode, type |-> type,
             rs |-> (instr \div 2097152) % 32,
             rt |-> (instr \div 65536) % 32,
             rd |-> 0,
             immediate |-> SignExtend16(instr)]
        ELSE
            [opcode |-> opcode, type |-> type,
             rs |-> 0, rt |-> 0, rd |-> 0, immediate |-> 0]

NOP_INSTRUCTION ==
    [opcode |-> NOP, type |-> I_TYPE, rs |-> 0, rt |-> 0, rd |-> 0, immediate |-> 0]

\* the bit-field pack that builds image words: opcode 31:26, rs 25:21,
\* rt 20:16, then rd 15:11 (R-class) or the low 16 bits of imm
encode(opcode, rs, rt, rd, imm) ==
    (IF opcode >= 32 THEN opcode - 64 ELSE opcode) * 67108864
    + rs * 2097152 + rt * 65536
    + (IF get_instruction_type(opcode) = R_TYPE THEN rd * 2048 ELSE imm % 65536)

RType(op, rd, rs, rt) == encode(op, rs, rt, rd, 0)
IType(op, rt, rs, imm) == encode(op, rs, rt, 0, imm)

----------------------------------------------------------------------------
(* functional_sim.c: the architectural globals and simulate_instruction.   *)
(* The executor works on the record of the globals it reads and writes.    *)

Globals ==
    [pc |-> state.pc, registers |-> state.registers, memory |-> state.memory,
     register_written |-> register_written,
     memory_changed |-> memory_changed,
     total_instructions |-> total_instructions,
     arithmetic_instructions |-> arithmetic_instructions,
     logical_instructions |-> logical_instructions,
     memory_access_instructions |-> memory_access_instructions,
     control_transfer_instructions |-> control_transfer_instructions,
     exited |-> FALSE, crashed |-> FALSE]

\* What an access outside memory[0..1023] (undefined behaviour) may do: read
\* zero / write nothing visible, read or overwrite the neighbouring object
\* (registers[] lies right before memory[] in MachineState, so memory[-k] is
\* registers[32 - k]; likewise memory_changed[-k] is register_written[32 - k]),
\* or fault.
UBOutcomes == {"benign", "neighbour", "crash"}

\* the register that memory[index] falls on, or -1
Neighbour(index) == IF index \in (0 - 32)..(0 - 1) THEN 32 + index ELSE 0 - 1

ImmWriters == {ADDI, SUBI, MULI, ORI, ANDI, XORI, LDW}

\* lines 75-90: the register_written bookkeeping
MarkWritten(rw, instr) ==
    IF instr.type = R_TYPE /\ instr.rd = 0 THEN rw
    ELSE IF instr.type = I_TYPE /\ instr.opcode \in ImmWriters /\ instr.rt = 0 THEN rw
    ELSE IF instr.type = R_TYPE THEN rw \cup {instr.rd}
    ELSE IF instr.opcode \in ImmWriters THEN rw \cup {instr.rt}
    ELSE rw

\* the byte address and the array index of an LDW/STW commit
EffectiveAddress(regs, instr) == Add32(regs[instr.rs], instr.immediate)
AccessIndex(regs, instr) == CDiv4(EffectiveAddress(regs, instr))
InMemory(index) == index \in 0..(MAX_MEMORY_LINES - 1)

\* lines 75-93: the register_written bookkeeping and total_instructions++
CountInstruction(g, instr) ==
    [g EXCEPT !.register_written = MarkWritten(@, instr),
              !.total_instructions = @ + 1]

\* a fault to test the commit frame against: an arithmetic commit that also
\* sets R31
ArithClobber(g1, r, v) == [g1 EXCEPT !.registers = [@ EXCEPT ![r] = v, ![31] = 1],
                                     !.arithmetic_instructions = @ + 1,
                                     !.pc = Add32(@, 4)]

Arith(g1, r, v) == [g1 EXCEPT !.registers[r] = v,
                              !.arithmetic_instructions = @ + 1,
                              !.pc = Add32(@, 4)]
Logic(g1, r, v) == [g1 EXCEPT !.registers[r] = v,
                              !.logical_instructions = @ + 1,
                              !.pc = Add32(@, 4)]
MemAcc(h) == [h EXCEPT !.memory_access_instructions = @ + 1,
                       !.pc = Add32(@, 4)]
Taken(g1, instr) == [g1 EXCEPT !.pc = Add32(@, instr.immediate * 4),
                               !.control_transfer_instructions = @ + 1]
NotTaken(g1) == [g1 EXCEPT !.control_transfer_instructions = @ + 1,
                           !.pc = Add32(@, 4)]

\* case LDW, lines 149-161: registers[rt] = memory[address / 4]
LoadWord(g1, instr, index, ub) ==
    IF InMemory(index)
    THEN MemAcc([g1 EXCEPT !.registers[instr.rt] = MemRead(g1.memory, index)])
    ELSE IF ub = "crash" THEN [g1 EXCEPT !.crashed = TRUE]
    ELSE IF ub = "neighbour" /\ Neighbour(index) >= 0
    THEN MemAcc([g1 EXCEPT !.registers[instr.rt] = g1.registers[Neighbour(index)]])
    ELSE MemAcc([g1 EXCEPT !.registers[instr.rt] = 0])

\* case STW, lines 162-176: memory[address / 4] = registers[rt]
StoreWord(g1, instr, index, ub) ==
    IF InMemory(index)
    THEN MemAcc([g1 EXCEPT !.memory = MemWrite(@, index, g1.registers[instr.rt]),
                           !.memory_changed = @ \cup {index}])
    ELSE IF ub = "crash" THEN [g1 EXCEPT !.crashed = TRUE]
    ELSE IF ub = "neighbour" /\ Neighbour(index) >= 0
    THEN MemAcc([g1 EXCEPT !.registers[Neighbour(index)] = g1.registers[instr.rt],
                           !.register_written = @ \cup {Neighbour(index)}])
    ELSE MemAcc(g1)

\* the switch, lines 95-217; R is the register file, op the opcode
ExecuteOpcode(g1, R, instr, op, ub) ==
    CASE op = ADD  -> Arith(g1, instr.rd, Add32(R[instr.rs], R[instr.rt]))
      [] op = ADDI -> Arith(g1, instr.rt, Add32(R[instr.rs], instr.immediate))
      [] op = SUB  -> Arith(g1, instr.rd, Sub32(R[instr.rs], R[instr.rt]))
      [] op = SUBI -> Arith(g1, instr.rt, Sub32(R[instr.rs], instr.immediate))
      [] op = MUL  -> Arith(g1, instr.rd, Mul32(R[instr.rs], R[instr.rt]))
      [] op = MULI -> Arith(g1, instr.rt, Mul32(R[instr.rs], instr.immediate))
      [] op = OR   -> Logic(g1, instr.rd, Or32(R[instr.rs], R[instr.rt]))
      [] op = ORI  -> Logic(g1, instr.rt, Or32(R[instr.rs], instr.immediate))
      [] op = AND  -> Logic(g1, instr.rd, And32(R[instr.rs], R[instr.rt]))
      [] op = ANDI -> Logic(g1, instr.rt, And32(R[instr.rs], instr.immediate))
      [] op = XOR  -> Logic(g1, instr.rd, Xor32(R[instr.rs], R[instr.rt]))
      [] op = XORI -> Logic(g1, instr.rt, Xor32(R[instr.rs], instr.immediate))
      [] op = LDW  -> LoadWord(g1, instr, AccessIndex(R, instr), ub)
      [] op = STW  -> StoreWord(g1, instr, AccessIndex(R, instr), ub)
      [] op = BZ   -> IF R[instr.rs] = 0 THEN Taken(g1, instr) ELSE NotTaken(g1)
      [] op = BEQ  -> IF R[instr.rs] = R[instr.rt] THEN Taken(g1, instr)
                      ELSE NotTaken(g1)
      [] op = JR   -> [g1 EXCEPT !.pc = R[instr.rs],
                                 !.control_transfer_instructions = @ + 1]
      [] op = HALT -> NotTaken(g1)
      [] op = NOP  -> [g1 EXCEPT !.pc = Add32(@, 4)]
      [] OTHER     -> [g1 EXCEPT !.exited = TRUE]

simulate_instruction(g, instr, ub) ==
    ExecuteOpcode(CountInstruction(g, instr), g.registers, instr, instr.opcode, ub)

\* the process ended inside the executor: exit(1), or a fault
Stopped(g) == g.exited \/ g.crashed
StopStatus(g) == IF g.exited THEN "exited" ELSE "crashed"

\* the exit status of the process: main returns 0 once the run has been
\* reported, exit(1) is called on an unknown opcode, and a fault ends the
\* process on a signal (128 + SIGSEGV as a shell shows it)
ExitStatus(st) == IF st = "done" THEN 0 ELSE IF st = "exited" THEN 1 ELSE 139

\* the globals of functional_sim.c after a step that left them as g
SetGlobals(g) ==
    /\ state' = [pc |-> g.pc, registers |-> g.registers, memory |-> g.memory]
    /\ register_written' = g.register_written
    /\ memory_changed' = g.memory_changed
    /\ total_instructions' = g.total_instructions
    /\ arithmetic_instructions' = g.arithmetic_instructions
    /\ logical_instructions' = g.logical_instructions
    /\ memory_access_instructions' = g.memory_access_instructions
    /\ control_transfer_instructions' = g.control_transfer_instructions

\* print_final_state: what a finished run reports
Report(g, st, cyc, stalls, flushes, why, cms) ==
    [status |-> st, pc |-> g.pc, registers |-> g.registers, memory |-> g.memory,
     register_written |-> g.register_written,
     memory_changed |-> g.memory_changed,
     total_instructions |-> g.total_instructions,
     arithmetic_instructions |-> g.arithmetic_instructions,
     logical_instructions |-> g.logical_instructions,
     memory_access_instructions |-> g.memory_access_instructions,
     control_transfer_instructions |-> g.control_transfer_instructions,
     clock_cycles |-> cyc, total_stalls |-> stalls, total_flushes |-> flushes,
     stop_reason |-> why, commits |-> cms]

\* the outcomes to consider when instr is committed from globals g
UBChoices(g, instr) ==
    IF instr.opcode \in {LDW, STW} /\ ~InMemory(AccessIndex(g.registers, instr))
    THEN UBOutcomes ELSE {"benign"}

----------------------------------------------------------------------------
(* no_fwd.c: latches and hazard detection *)

Stages == 0..(PIPELINE_DEPTH - 1)

\* insert_nop: the bubble
NopLatch ==
    [instr |-> NOP_INSTRUCTION, valid |-> FALSE, pc |-> 0,
     branch_taken |-> FALSE, branch_target |-> 0, result_val |-> 0]

\* a static PipelineRegister before initialize_pipeline: all bytes zero
ZeroLatch ==
    [instr |-> [opcode |-> 0, type |-> R_TYPE, rs |-> 0, rt |-> 0, rd |-> 0,
                immediate |-> 0],
     valid |-> FALSE, pc |-> 0,
     branch_taken |-> FALSE, branch_target |-> 0, result_val |-> 0]

\* the IF latch after a fetch of word at address pc (lines 352-357)
FetchedLatch(word, pc) ==
    [NopLatch EXCEPT !.instr = decode_instruction(word), !.valid = TRUE, !.pc = pc]

is_nop(instr) == instr.opcode = NOP

\* a fault to test the stall rule against: a store counted as a writer of rt
get_dest_reg_with_stores(instr) ==
    IF instr.type = R_TYPE THEN instr.rd
    ELSE IF instr.opcode \in ImmWriters \cup {STW} THEN instr.rt
    ELSE -1

get_dest_reg(instr) ==
    IF instr.type = R_TYPE THEN instr.rd
    ELSE IF instr.opcode \in ImmWriters THEN instr.rt
    ELSE -1

\* a fault to test the hazard claims against: only the producer in EX is
\* looked at
detect_raw_hazard_ex_only(curr_id_reg, ex_reg, mem_reg) ==
    /\ curr_id_reg.valid /\ ~is_nop(curr_id_reg.instr)
    /\ curr_id_reg.instr.opcode # HALT
    /\ ex_reg.valid /\ ~is_nop(ex_reg.instr)
    /\ get_dest_reg(ex_reg.instr) > 0
    /\ \/ get_dest_reg(ex_reg.instr) = curr_id_reg.instr.rs
       \/ /\ \/ curr_id_reg.instr.type = R_TYPE
             \/ curr_id_reg.instr.opcode \in {BEQ, STW}
          /\ get_dest_reg(ex_reg.instr) = curr_id_reg.instr.rt

\* a fault to test the stall counts against: only the producer in MEM is
\* looked at
detect_raw_hazard_mem_only(curr_id_reg, ex_reg, mem_reg) ==
    /\ curr_id_reg.valid /\ ~is_nop(curr_id_reg.instr)
    /\ curr_id_reg.instr.opcode # HALT
    /\ mem_reg.valid /\ ~is_nop(mem_reg.instr)
    /\ get_dest_reg(mem_reg.instr) > 0
    /\ \/ get_dest_reg(mem_reg.instr) = curr_id_reg.instr.rs
       \/ /\ \/ curr_id_reg.instr.type = R_TYPE
             \/ curr_id_reg.instr.opcode \in {BEQ, STW}
          /\ get_dest_reg(mem_reg.instr) = curr_id_reg.instr.rt

detect_raw_hazard(curr_id_reg, ex_reg, mem_reg) ==
    IF ~curr_id_reg.valid \/ is_nop(curr_id_reg.instr)
       \/ curr_id_reg.instr.opcode = HALT
    THEN FALSE
    ELSE
    LET i    == curr_id_reg.instr
        src1 == IF i.rs = 0 THEN -1 ELSE i.rs
        s2   == IF i.type = R_TYPE \/ i.opcode = BEQ \/ i.opcode = STW
                THEN i.rt ELSE -1
        src2 == IF s2 = 0 THEN -1 ELSE s2
        Dest(reg) == LET d == get_dest_reg(reg.instr) IN IF d = 0 THEN -1 ELSE d
        Hit(reg) == /\ reg.valid /\ ~is_nop(reg.instr)
                    /\ Dest(reg) # -1
                    /\ (Dest(reg) = src1 \/ (src2 # -1 /\ Dest(reg) = src2))
    IN  Hit(ex_reg) \/ Hit(mem_reg)

\* a fault to test the loop scenario against: BZ taken when its register is
\* not zero
NFResolveNonZero(ex, regs) ==
    IF ex.valid /\ ~is_nop(ex.instr) /\ ex.instr.opcode \in {BEQ, BZ, JR}
    THEN CASE ex.instr.opcode = BZ ->
                  [taken |-> regs[ex.instr.rs] # 0,
                   target |-> Add32(ex.pc, ex.instr.immediate * 4)]
           [] ex.instr.opcode = BEQ ->
                  [taken |-> regs[ex.instr.rs] = regs[ex.instr.rt],
                   target |-> Add32(ex.pc, ex.instr.immediate * 4)]
           [] OTHER ->
                  [taken |-> TRUE, target |-> regs[ex.instr.rs]]
    ELSE [taken |-> FALSE, target |-> 0]

\* a fault to test the untaken branch against: BEQ redirects the fetch
\* whatever the comparison says
NFResolveBEQAlways(ex, regs) ==
    IF ex.valid /\ ~is_nop(ex.instr) /\ ex.instr.opcode \in {BEQ, BZ, JR}
    THEN CASE ex.instr.opcode = BZ ->
                  [taken |-> regs[ex.instr.rs] = 0,
                   target |-> Add32(ex.pc, ex.instr.immediate * 4)]
           [] ex.instr.opcode = BEQ ->
                  [taken |-> TRUE,
                   target |-> Add32(ex.pc, ex.instr.immediate * 4)]
           [] OTHER ->
                  [taken |-> TRUE, target |-> regs[ex.instr.rs]]
    ELSE [taken |-> FALSE, target |-> 0]

\* lines 279-312: the branch or jump in EX, read from the register file
NFResolve(ex, regs) ==
    IF ex.valid /\ ~is_nop(ex.instr) /\ ex.instr.opcode \in {BEQ, BZ, JR}
    THEN CASE ex.instr.opcode = BZ ->
                  [taken |-> regs[ex.instr.rs] = 0,
                   target |-> Add32(ex.pc, ex.instr.immediate * 4)]
           [] ex.instr.opcode = BEQ ->
                  [taken |-> regs[ex.instr.rs] = regs[ex.instr.rt],
                   target |-> Add32(ex.pc, ex.instr.immediate * 4)]
           [] OTHER ->
                  [taken |-> TRUE, target |-> regs[ex.instr.rs]]
    ELSE [taken |-> FALSE, target |-> 0]

\* lines 314-327: the stall decision of the cycle
NFStall(pl) ==
    /\ pl[ID].valid /\ ~is_nop(pl[ID].instr) /\ pl[ID].instr.opcode # HALT
    /\ detect_raw_hazard(pl[ID], pl[EX], pl[MEM])

\* lines 329-348: the latch shift; the stall is tested before the flush
NFShift(pl, stall, flush) ==
    IF stall THEN
        [pl EXCEPT ![WB] = pl[MEM], ![MEM] = pl[EX], ![EX] = NopLatch]
    ELSE IF flush THEN
        [pl EXCEPT ![WB] = pl[MEM], ![MEM] = pl[EX], ![EX] = NopLatch,
                   ![ID] = NopLatch, ![S_IF] = NopLatch]
    ELSE
        [pl EXCEPT ![WB] = pl[MEM], ![MEM] = pl[EX], ![EX] = pl[ID],
                   ![ID] = pl[S_IF], ![S_IF] = NopLatch]

\* a fault to test the halt flag against: the fetch goes on after a HALT
NFFetchPastHalt(p, stall, mem) ==
    IF stall THEN p
    ELSE IF ULT(p.pipeline_pc, MemBytes) THEN
        [pipeline |-> [p.pipeline EXCEPT ![S_IF] =
                           FetchedLatch(MemRead(mem, p.pipeline_pc \div WORD_SIZE),
                                        p.pipeline_pc)],
         pipeline_pc |-> Add32(p.pipeline_pc, WORD_SIZE),
         pipeline_halt_seen |->
             (p.pipeline_halt_seen \/
              decode_instruction(MemRead(mem, p.pipeline_pc \div WORD_SIZE)).opcode = HALT)]
    ELSE
        [pipeline |-> [p.pipeline EXCEPT ![S_IF] = NopLatch],
         pipeline_pc |-> p.pipeline_pc,
         pipeline_halt_seen |-> TRUE]

\* lines 350-378: the fetch into IF; p carries pipeline, pipeline_pc and
\* pipeline_halt_seen
NFFetch(p, stall, mem) ==
    IF stall THEN p
    ELSE IF ~p.pipeline_halt_seen /\ ULT(p.pipeline_pc, MemBytes) THEN
        LET f == FetchedLatch(MemRead(mem, p.pipeline_pc \div WORD_SIZE), p.pipeline_pc)
        IN  [pipeline |-> [p.pipeline EXCEPT ![S_IF] = f],
             pipeline_pc |-> Add32(p.pipeline_pc, WORD_SIZE),
             pipeline_halt_seen |-> (f.instr.opcode = HALT)]
    ELSE
        [pipeline |-> [p.pipeline EXCEPT ![S_IF] = NopLatch],
         pipeline_pc |-> p.pipeline_pc,
         pipeline_halt_seen |-> TRUE]

\* the cycle's outcome: the latches, the fetch state, and what it decided
CycleResult(p, stall, taken) ==
    [pipeline |-> p.pipeline, pipeline_pc |-> p.pipeline_pc,
     pipeline_halt_seen |-> p.pipeline_halt_seen,
     stall |-> stall, taken |-> taken]

\* lines 329-378, after branch resolution br and the stall decision
NFShiftAndFetch(pl, ppc, phs, br, stall, mem) ==
    CycleResult(NFFetch([pipeline |-> NFShift(pl, stall, br.taken),
                         pipeline_pc |-> IF br.taken THEN br.target ELSE ppc,
                         pipeline_halt_seen |-> phs],
                        stall, mem),
                stall, br.taken)

\* simulate_one_cycle_no_forwarding_internal after its WB stage, which left
\* registers regs and memory mem
NFStages(pl, ppc, phs, regs, mem) ==
    NFShiftAndFetch(pl, ppc, phs, NFResolve(pl[EX], regs), NFStall(pl), mem)

----------------------------------------------------------------------------
(* with_fwd.c *)

instr_writes_to_reg(instr) ==
    \/ instr.type = R_TYPE /\ instr.rd # 0
    \/ instr.type = I_TYPE /\ instr.rt # 0 /\ instr.opcode \in ImmWriters

\* lines 168-190: the MEM stage reads the word for an LDW into the latch and
\* writes the word of an STW to memory
WFMemAddressOk(eff_addr) == ULT(eff_addr, MAX_MEMORY_LINES * 4) /\ eff_addr % 4 = 0

WFMemActive(m) == m.valid /\ ~is_nop(m.instr)

\* lines 171-180: the latches after the MEM stage
WFMemLoad(pl, mem) ==
    IF WFMemActive(pl[MEM]) /\ pl[MEM].instr.opcode = LDW
    THEN [pl EXCEPT ![MEM].result_val =
              IF WFMemAddressOk(pl[MEM].branch_target)
              THEN MemRead(mem, pl[MEM].branch_target \div 4) ELSE 0]
    ELSE pl

\* lines 181-189: the globals after the MEM stage
WFMemStore(m, g) ==
    IF WFMemActive(m) /\ m.instr.opcode = STW /\ WFMemAddressOk(m.branch_target)
    THEN [g EXCEPT !.memory = MemWrite(@, m.branch_target \div 4, m.result_val),
                   !.memory_changed = @ \cup {m.branch_target \div 4}]
    ELSE g

\* lines 194-196
WFClearTaken(pl) ==
    [pl EXCEPT ![EX].branch_taken = FALSE,
               ![MEM].branch_taken = FALSE,
               ![WB].branch_taken = FALSE]

\* a fault to test the forwarding priority against: the WB latch is asked
\* before the MEM latch
WFOperandWBFirst(pl, reg, regs) ==
    IF pl[WB].valid /\ instr_writes_to_reg(pl[WB].instr)
       /\ get_dest_reg(pl[WB].instr) = reg /\ reg # 0
    THEN pl[WB].result_val
    ELSE IF pl[MEM].valid /\ instr_writes_to_reg(pl[MEM].instr)
            /\ get_dest_reg(pl[MEM].instr) = reg /\ reg # 0
    THEN pl[MEM].result_val
    ELSE regs[reg]

\* lines 207-235: an EX operand: the MEM latch, else the WB latch, else the
\* register file
WFOperand(pl, reg, regs) ==
    IF pl[MEM].valid /\ instr_writes_to_reg(pl[MEM].instr)
       /\ get_dest_reg(pl[MEM].instr) = reg /\ reg # 0
    THEN pl[MEM].result_val
    ELSE IF pl[WB].valid /\ instr_writes_to_reg(pl[WB].instr)
            /\ get_dest_reg(pl[WB].instr) = reg /\ reg # 0
    THEN pl[WB].result_val
    ELSE regs[reg]

\* lines 219-235: rt is forwarded only where it is a source
WFOperandRt(pl, i, regs) ==
    IF i.type = R_TYPE \/ i.opcode = BEQ \/ i.opcode = STW
    THEN WFOperand(pl, i.rt, regs) ELSE regs[i.rt]

WFOut(ex, v) == [ex EXCEPT !.result_val = v]
WFAddr(ex, a, v) == [ex EXCEPT !.branch_target = a, !.result_val = v]
WFBranch(ex, c, target) ==
    IF c THEN [ex EXCEPT !.branch_taken = TRUE, !.branch_target = target,
                         !.result_val = 0]
    ELSE WFOut(ex, 0)

\* lines 237-330: the switch of the EX stage on operands val_rs, val_rt
WFExecute(ex, i, op, val_rs, val_rt) ==
    IF ~(ex.valid /\ ~is_nop(i)) THEN WFOut(ex, 0)
    ELSE CASE op = ADD  -> WFOut(ex, Add32(val_rs, val_rt))
           [] op = SUB  -> WFOut(ex, Sub32(val_rs, val_rt))
           [] op = MUL  -> WFOut(ex, Mul32(val_rs, val_rt))
           [] op = OR   -> WFOut(ex, Or32(val_rs, val_rt))
           [] op = AND  -> WFOut(ex, And32(val_rs, val_rt))
           [] op = XOR  -> WFOut(ex, Xor32(val_rs, val_rt))
           [] op = ADDI -> WFOut(ex, Add32(val_rs, i.immediate))
           [] op = SUBI -> WFOut(ex, Sub32(val_rs, i.immediate))
           [] op = MULI -> WFOut(ex, Mul32(val_rs, i.immediate))
           [] op = ORI  -> WFOut(ex, Or32(val_rs, i.immediate % 65536))
           [] op = ANDI -> WFOut(ex, And32(val_rs, i.immediate % 65536))
           [] op = XORI -> WFOut(ex, Xor32(val_rs, i.immediate % 65536))
           [] op = LDW  -> WFAddr(ex, Add32(val_rs, i.immediate), 0)
           [] op = STW  -> WFAddr(ex, Add32(val_rs, i.immediate), val_rt)
           [] op = BZ   -> WFBranch(ex, val_rs = 0, Add32(ex.pc, i.immediate * 4))
           [] op = BEQ  -> WFBranch(ex, val_rs = val_rt,
                                    Add32(ex.pc, i.immediate * 4))
           [] op = JR   -> WFBranch(ex, TRUE, val_rs)
           [] OTHER     -> WFOut(ex, 0)

\* lines 198-330: the EX stage; the latch EX after it
WFExStage(pl, regs) ==
    WFExecute(pl[EX], pl[EX].instr, pl[EX].instr.opcode,
              WFOperand(pl, pl[EX].instr.rs, regs),
              WFOperandRt(pl, pl[EX].instr, regs))

\* lines 336-350: the load-use stall decision, on the latches after EX
WFLoadUse(id_instr, dest) ==
    \/ id_instr.rs = dest
    \/ /\ id_instr.type = R_TYPE \/ id_instr.opcode = BEQ \/ id_instr.opcode = STW
       /\ id_instr.rt = dest

\* the load-use test made one stage late: on the load in MEM and its consumer
\* in EX
WFStallBehindLoad(pl) ==
    /\ pl[MEM].valid /\ pl[MEM].instr.opcode = LDW
    /\ get_dest_reg(pl[MEM].instr) # 0
    /\ pl[EX].valid /\ ~is_nop(pl[EX].instr)
    /\ WFLoadUse(pl[EX].instr, get_dest_reg(pl[MEM].instr))

WFStall(pl) ==
    /\ pl[EX].valid /\ pl[EX].instr.opcode = LDW
    /\ instr_writes_to_reg(pl[EX].instr)
    /\ get_dest_reg(pl[EX].instr) # 0
    /\ pl[ID].valid /\ ~is_nop(pl[ID].instr)
    /\ WFLoadUse(pl[ID].instr, get_dest_reg(pl[EX].instr))

\* lines 355-384: the latch shift
WFShift(pl, stall, flush) ==
    IF flush THEN
        [pl EXCEPT ![WB] = pl[MEM], ![MEM] = pl[EX], ![EX] = NopLatch,
                   ![ID] = NopLatch, ![S_IF] = NopLatch]
    ELSE IF stall THEN
        [pl EXCEPT ![WB] = pl[MEM], ![MEM] = pl[EX], ![EX] = NopLatch]
    ELSE
        [pl EXCEPT ![WB] = pl[MEM], ![MEM] = pl[EX], ![EX] = pl[ID],
                   ![ID] = pl[S_IF], ![S_IF] = NopLatch]

\* lines 385-408: the fetch; flush_for_branch was cleared at line 377, so
\* only the stall keeps the fetch from running
WFFetch(p, stall, mem) ==
    IF stall THEN p
    ELSE IF ~p.pipeline_halt_seen /\ ULT(p.pipeline_pc, MemBytes) THEN
        [pipeline |-> [p.pipeline EXCEPT ![S_IF] =
                           FetchedLatch(MemRead(mem, p.pipeline_pc \div 4),
                                        p.pipeline_pc)],
         pipeline_pc |-> Add32(p.pipeline_pc, 4),
         pipeline_halt_seen |->
             (decode_instruction(MemRead(mem, p.pipeline_pc \div 4)).opcode = HALT)]
    ELSE
        [pipeline |-> [p.pipeline EXCEPT ![S_IF] = NopLatch],
         pipeline_pc |-> p.pipeline_pc,
         pipeline_halt_seen |-> (p.pipeline_halt_seen \/ ~ULT(p.pipeline_pc, MemBytes))]

\* lines 332-408, on the latches pl2 after EX: stall, shift and fetch
WFShiftAndFetch(pl2, ppc, phs, stall, flush, mem) ==
    CycleResult(WFFetch([pipeline |-> WFShift(pl2, stall, flush),
                         pipeline_pc |-> IF flush THEN pl2[EX].branch_target ELSE ppc,
                         pipeline_halt_seen |-> phs],
                        stall, mem),
                stall, flush)

\* lines 194-408, on the latches pl1 after MEM
WFExAndAfter(pl1, ex, ppc, phs, mem) ==
    WFShiftAndFetch([pl1 EXCEPT ![EX] = ex], ppc, phs,
                    WFStall([pl1 EXCEPT ![EX] = ex]), ex.branch_taken, mem)

\* simulate_one_cycle_with_forwarding_internal after its WB stage, which
\* left registers regs; mem is the memory after the MEM stage
WFLatches(pl1, ppc, phs, regs, mem) ==
    WFExAndAfter(pl1, WFExStage(pl1, regs), ppc, phs, mem)

WFStages(pl, ppc, phs, g) ==
    WFLatches(WFClearTaken(WFMemLoad(pl, g.memory)), ppc, phs, g.registers,
              WFMemStore(pl[MEM], g).memory)

----------------------------------------------------------------------------
(* Memory images *)

\* bounds of the model
MaxImageLen == 3
MaxSteps == 12
MaxCycles == 20
MaxLog == 64

\* the instruction words the generated images are built from
InstrPool ==
    { IType(ADDI, 1, 0, 5),         \* ADDI R1,R0,5
      RType(ADD, 2, 1, 1),          \* ADD  R2,R1,R1
      IType(STW, 1, 0, 64),         \* STW  R1,64(R0)
      IType(LDW, 2, 0, 64),         \* LDW  R2,64(R0)
      IType(BZ, 0, 2, 2),           \* BZ   R2,+2
      IType(XORI, 1, 1, -1),        \* XORI R1,R1,0xFFFF
      IType(ADDI, 0, 0, 5),         \* ADDI R0,R0,5
      IType(JR, 0, 1, 0),           \* JR   R1
      encode(19, 0, 0, 0, 0) }      \* opcode 0x13: no instruction

RECURSIVE SeqsUpTo(_, _)
SeqsUpTo(S, n) ==
    IF n = 0 THEN {<<>>}
    ELSE LET shorter == SeqsUpTo(S, n - 1)
         IN  shorter \cup {Append(q, w) : q \in {t \in shorter : Len(t) = n - 1}, w \in S}

\* every program of at most MaxImageLen pool instructions, then HALT
GeneratedImages == {Append(q, IType(HALT, 0, 0, 0)) : q \in SeqsUpTo(InstrPool, MaxImageLen)}

HALT_WORD == IType(HALT, 0, 0, 0)

\* the scenarios S1..S6 of the specification
ImageS1 == << IType(ADDI, 1, 0, 5), IType(ADDI, 2, 0, 7), RType(ADD, 3, 1, 2), HALT_WORD >>
ImageS2 == << IType(ADDI, 1, 0, 5), RType(ADD, 2, 1, 1), HALT_WORD >>
ImageS3 == << IType(ADDI, 1, 0, 0), IType(STW, 1, 0, 0), IType(LDW, 2, 0, 0),
              RType(ADD, 3, 2, 2), HALT_WORD >>
ImageS4 == << IType(ADDI, 1, 0, 3), IType(SUBI, 1, 1, 1), IType(BZ, 0, 1, -2), HALT_WORD >>
ImageS5 == << IType(ADDI, 1, 0, 12), IType(JR, 0, 1, 0), HALT_WORD,
              IType(ADDI, 2, 0, 99), HALT_WORD >>
ImageS6 == << IType(STW, 0, 0, 1), HALT_WORD >>

\* a taken branch in EX while the instruction behind it waits on a producer
ImageBranchStall ==
    << IType(ADDI, 1, 0, 5), IType(BZ, 0, 0, 3), RType(ADD, 2, 1, 1),
       IType(ADDI, 3, 0, 7), HALT_WORD >>

\* a taken branch straight to the HALT
ImageBranchToHalt == << IType(BZ, 0, 0, 2), IType(ADDI, 1, 0, 5), HALT_WORD >>

\* accesses outside the 4 KiB: STW R1,-8(R0) and LDW R2,4096(R0)
ImageOutOfBounds ==
    << IType(ADDI, 1, 0, 5), IType(STW, 1, 0, -8), IType(LDW, 2, 0, 4096), HALT_WORD >>

\* a BZ right behind the XORI that makes its register 0: R1 = -1 xor 0xFFFF...
\* (sign-extended immediate) is 0, the branch skips seven ADDI R3,R3,1
ImageForwardedBranch ==
    << IType(ADDI, 1, 0, -1), IType(XORI, 1, 1, -1), IType(BZ, 0, 1, 8),
       IType(ADDI, 3, 3, 1), IType(ADDI, 3, 3, 1), IType(ADDI, 3, 3, 1),
       IType(ADDI, 3, 3, 1), IType(ADDI, 3, 3, 1), IType(ADDI, 3, 3, 1),
       IType(ADDI, 3, 3, 1), HALT_WORD >>

\* a NOP word (opcode 0x12) among the instructions
ImageNopWord == << IType(NOP, 0, 0, 0), IType(ADDI, 1, 0, 5), HALT_WORD >>

\* a JR to address 4096, the first address outside the memory
ImageJumpOutHalt == << IType(ADDI, 1, 0, 4096), IType(JR, 0, 1, 0), HALT_WORD >>

Scenarios == {ImageS1, ImageS2, ImageS3, ImageS4, ImageS5, ImageS6,
              ImageBranchStall, ImageBranchToHalt, ImageOutOfBounds,
              ImageForwardedBranch, ImageNopWord, ImageJumpOutHalt}

Images == GeneratedImages \cup Scenarios

\* read_memory_image: word i of the file goes to memory[i]
LoadImage(img) == [i \in 0..(Len(img) - 1) |-> img[i + 1]]

----------------------------------------------------------------------------
(* The runs *)

Modes == {"FS", "NF", "WF"}

NoReport ==
    [status |-> "none", pc |-> 0, registers |-> ZeroRegisters,
     memory |-> [i \in {} |-> 0], register_written |-> {}, memory_changed |-> {},
     total_instructions |-> 0, arithmetic_instructions |-> 0,
     logical_instructions |-> 0, memory_access_instructions |-> 0,
     control_transfer_instructions |-> 0,
     clock_cycles |-> 0, total_stalls |-> 0, total_flushes |-> 0,
     stop_reason |-> "", commits |-> <<>>]

\* main, lines 286-296, entered with image img in mode m: the globals after
\* initialize_machine_state and read_memory_image; for NF and WF also after
\* initialize_pipeline
StartRun(img, m) ==
    [image |-> img, mode |-> m,
     state |-> [pc |-> 0, registers |-> ZeroRegisters, memory |-> LoadImage(img)],
     pipeline |-> [i \in Stages |-> IF m = "FS" THEN ZeroLatch ELSE NopLatch]]

Init ==
    /\ \E img \in Images :
         LET s == StartRun(img, "FS")
         IN  /\ image = s.image
             /\ mode = s.mode
             /\ state = s.state
             /\ pipeline = s.pipeline
    /\ status = "running"
    /\ register_written = {}
    /\ memory_changed = {}
    /\ total_instructions = 0
    /\ arithmetic_instructions = 0
    /\ logical_instructions = 0
    /\ memory_access_instructions = 0
    /\ control_transfer_instructions = 0
    /\ pipeline_pc = 0
    /\ pipeline_halt_seen = FALSE
    /\ clock_cycles = 0
    /\ total_stalls = 0
    /\ total_flushes = 0
    /\ commits = <<>>
    /\ stop_reason = ""
    /\ final = [m \in Modes |-> NoReport]

pipeVars == <<pipeline, pipeline_pc, pipeline_halt_seen, clock_cycles,
              total_stalls, total_flushes>>

\* the run ends: its status, and what it reported
EndRun(g, st, cyc, why, cms) ==
    /\ status' = st
    /\ stop_reason' = why
    /\ final' = [final EXCEPT ![mode] =
                     Report(g, st, cyc, total_stalls', total_flushes', why, cms)]

Continue ==
    /\ status' = "running"
    /\ stop_reason' = ""
    /\ final' = final

\* the latch a pipeline commits from, and the outcomes to consider
Commits(wb) == wb.valid /\ ~is_nop(wb.instr)
CommitChoices(g, wb) == IF Commits(wb) THEN UBChoices(g, wb.instr) ELSE {"benign"}
\* the record of the retired fetch addresses, kept for the first MaxLog
Logged(cms, pc) == IF Len(cms) < MaxLog THEN Append(cms, pc) ELSE cms
Retired(cms, wb) == IF Commits(wb) THEN Logged(cms, wb.pc) ELSE cms
Active(pl) == \E i \in Stages : pl[i].valid /\ pl[i].instr.opcode # NOP

\* the process ended inside simulate_instruction
ProcessEnds(g, cyc, cms) ==
    /\ SetGlobals(g)
    /\ commits' = cms
    /\ UNCHANGED <<pipeline, pipeline_pc, pipeline_halt_seen,
                   total_stalls, total_flushes>>
    /\ EndRun(g, StopStatus(g), cyc, StopStatus(g), cms)

\* a fault to test the hazard counters against: a stall that coincides with
\* a taken branch is not counted
SetPipelineStallNotCountedOnFlush(a) ==
    /\ pipeline' = a.pipeline
    /\ pipeline_pc' = a.pipeline_pc
    /\ pipeline_halt_seen' = a.pipeline_halt_seen
    /\ total_stalls' = total_stalls + (IF a.stall /\ ~a.taken THEN 1 ELSE 0)
    /\ total_flushes' = total_flushes + (IF a.taken THEN 2 ELSE 0)

\* the latches and hazard counters after a cycle with outcome a
SetPipeline(a) ==
    /\ pipeline' = a.pipeline
    /\ pipeline_pc' = a.pipeline_pc
    /\ pipeline_halt_seen' = a.pipeline_halt_seen
    /\ total_stalls' = total_stalls + (IF a.stall THEN 1 ELSE 0)
    /\ total_flushes' = total_flushes + (IF a.taken THEN 2 ELSE 0)

\* lines 334-348: simulate_instruction has run on decoded and left g
FSExecuted(g, decoded, cms) ==
    /\ SetGlobals(g)
    /\ commits' = cms
    /\ IF Stopped(g)
       THEN EndRun(g, StopStatus(g), clock_cycles, StopStatus(g), cms)
       ELSE IF decoded.opcode = HALT
       THEN EndRun(g, "done", clock_cycles, "halt", cms)
       ELSE Continue

\* lines 308-348: fetch, decode and execute the word at state.pc
FSExecute(decoded) ==
    \E ub \in UBChoices(Globals, decoded) :
        FSExecuted(simulate_instruction(Globals, decoded, ub), decoded,
                   Logged(commits, state.pc))

\* main, lines 302-351: one pass of the FS loop
FSStep ==
    /\ mode = "FS" /\ status = "running"
    /\ total_instructions < MaxSteps
    /\ UNCHANGED <<image, mode, pipeVars>>
    /\ IF ~ULT(state.pc, MemBytes)
       THEN /\ SetGlobals(Globals)
            /\ commits' = commits
            /\ EndRun(Globals, "done", clock_cycles, "bounds", commits)
       ELSE FSExecute(decode_instruction(MemRead(state.memory, state.pc \div 4)))

\* no_fwd.c lines 259-273: the WB stage
NFWriteBack(g, wb, ub) ==
    IF Commits(wb) THEN simulate_instruction([g EXCEPT !.pc = wb.pc], wb.instr, ub)
    ELSE g

\* a fault to test the counting claim against: the driver moves the PC past
\* the HALT and counts it in no class
NFRetireHaltUnclassed(g) ==
    [g EXCEPT !.pc = Add32(@, 4), !.total_instructions = @ + 1]

\* lines 407-414: a HALT that has entered WB is retired by the driver
NFRetireHalt(g) ==
    [g EXCEPT !.pc = Add32(@, 4),
              !.total_instructions = @ + 1,
              !.control_transfer_instructions = @ + 1]

\* lines 407-438: the driver's tests after the cycle; g and cms are the
\* globals and the retired addresses as the driver leaves them
NFLoopTests(g, cms, a, halt_in_wb, cyc) ==
    /\ SetGlobals(g)
    /\ commits' = cms
    /\ SetPipeline(a)
    /\ IF halt_in_wb
       THEN EndRun(g, "done", cyc, "halt", cms)
       ELSE IF ~Active(a.pipeline) /\ a.pipeline_halt_seen
       THEN EndRun(g, "done", cyc, "drain", cms)
       ELSE IF cyc > CYCLE_CAP_NF
       THEN EndRun(g, "done", cyc, "cap", cms)
       ELSE Continue

\* a fault to test the latches at the stop against: the driver looks for
\* the HALT one stage early
NFHaltInMEM(a) == a.pipeline[MEM].valid /\ a.pipeline[MEM].instr.opcode = HALT

NFHaltInWB(a) == a.pipeline[WB].valid /\ a.pipeline[WB].instr.opcode = HALT

NFAfterCycle(g1, cm1, a, cyc) ==
    IF NFHaltInWB(a)
    THEN NFLoopTests(NFRetireHalt(g1), Logged(cm1, a.pipeline[WB].pc), a, TRUE, cyc)
    ELSE NFLoopTests(g1, cm1, a, FALSE, cyc)

\* the cycle after its WB stage left the globals g1
NFAfterWB(g1, cm1, cyc) ==
    IF Stopped(g1) THEN ProcessEnds(g1, cyc, cm1)
    ELSE \E a \in {NFStages(pipeline, pipeline_pc, pipeline_halt_seen,
                           g1.registers, g1.memory)} :
           NFAfterCycle(g1, cm1, a, cyc)

\* one pass of the loop of simulate_pipeline_no_forwarding, lines 404-439,
\* and print_final_state when the loop is left
NFLoopPass ==
    /\ mode = "NF" /\ status = "running"
    /\ UNCHANGED <<image, mode>>
    /\ clock_cycles' = clock_cycles + 1
    /\ \E ub \in CommitChoices([Globals EXCEPT !.pc = pipeline[WB].pc], pipeline[WB]) :
         \E g1 \in {NFWriteBack(Globals, pipeline[WB], ub)} :
             NFAfterWB(g1, Retired(commits, pipeline[WB]), clock_cycles + 1)

\* the pass, explored up to MaxCycles cycles
NFCycle == clock_cycles < MaxCycles /\ NFLoopPass

\* with_fwd.c lines 158-161: the WB stage, s1 being the globals after
\* simulate_instruction
WFWriteBack(s1, wb) == IF Commits(wb) THEN [s1 EXCEPT !.pc = wb.pc] ELSE s1

WFExecuted(g, wb, ub) ==
    IF Commits(wb) THEN simulate_instruction(g, wb.instr, ub) ELSE g

\* a fault to test the termination claim against: the driver without its
\* cycle cap
WFLoopEndUncapped(g, cms, a, cyc) ==
    /\ commits' = cms
    /\ SetPipeline(a)
    /\ SetGlobals(g)
    /\ Continue

\* lines 442-450: the cycle cap, and state.pc += 4 once the loop is left
WFLoopEnd(g, cms, a, cyc) ==
    /\ commits' = cms
    /\ SetPipeline(a)
    /\ IF cyc > CYCLE_CAP_WF
       THEN /\ SetGlobals([g EXCEPT !.pc = Add32(@, 4)])
            /\ EndRun([g EXCEPT !.pc = Add32(@, 4)], "done", cyc, "cap", cms)
       ELSE /\ SetGlobals(g)
            /\ Continue

\* the cycle after its WB stage left the globals g1
WFAfterWB(s1, g1, cm1, cyc) ==
    IF Stopped(s1) THEN ProcessEnds(s1, cyc, cm1)
    ELSE \E g2 \in {WFMemStore(pipeline[MEM], g1)},
            a \in {WFStages(pipeline, pipeline_pc, pipeline_halt_seen, g1)} :
           WFLoopEnd(g2, cm1, a, cyc)

WFRunCycle(s1, wb, cm1, cyc) ==
    /\ clock_cycles' = cyc
    /\ \E g1 \in {WFWriteBack(s1, wb)} : WFAfterWB(s1, g1, cm1, cyc)

\* lines 448-450 after the loop is left at line 433 or 437
WFLeaveLoop(g, why, cms) ==
    /\ SetGlobals(g)
    /\ commits' = cms
    /\ UNCHANGED pipeVars
    /\ EndRun(g, "done", clock_cycles, why, cms)

\* one pass of the loop of simulate_pipeline_with_forwarding, lines 420-446,
\* and lines 448-450 when the loop is left
WFLoopPass ==
    /\ mode = "WF" /\ status = "running"
    /\ UNCHANGED <<image, mode>>
    /\ IF pipeline[WB].valid /\ pipeline[WB].instr.opcode = HALT
       THEN WFLeaveLoop([simulate_instruction(Globals, pipeline[WB].instr, "benign")
                             EXCEPT !.pc = Add32(@, 4)],
                        "halt", Logged(commits, pipeline[WB].pc))
       ELSE IF ~Active(pipeline) /\ (pipeline_halt_seen \/ ~ULT(pipeline_pc, MemBytes))
       THEN WFLeaveLoop([Globals EXCEPT !.pc = Add32(@, 4)], "drain", commits)
       ELSE \E ub \in CommitChoices(Globals, pipeline[WB]) :
              \E s1 \in {WFExecuted(Globals, pipeline[WB], ub)} :
                  WFRunCycle(s1, pipeline[WB],
                             Retired(commits, pipeline[WB]), clock_cycles + 1)

\* the pass, explored up to MaxCycles cycles
WFCycle == clock_cycles < MaxCycles /\ WFLoopPass

\* the same image is run again in the next mode, as a new process
RunNextMode ==
    /\ status # "running"
    /\ mode # "WF"
    /\ final' = final
    /\ LET s == StartRun(image, IF mode = "FS" THEN "NF" ELSE "WF")
       IN  /\ image' = s.image
           /\ mode' = s.mode
           /\ state' = s.state
           /\ pipeline' = s.pipeline
    /\ status' = "running"
    /\ register_written' = {}
    /\ memory_changed' = {}
    /\ total_instructions' = 0
    /\ arithmetic_instructions' = 0
    /\ logical_instructions' = 0
    /\ memory_access_instructions' = 0
    /\ control_transfer_instructions' = 0
    /\ pipeline_pc' = 0
    /\ pipeline_halt_seen' = FALSE
    /\ clock_cycles' = 0
    /\ total_stalls' = 0
    /\ total_flushes' = 0
    /\ commits' = <<>>
    /\ stop_reason' = ""

Next == FSStep \/ NFCycle \/ WFCycle \/ RunNextMode

Spec == Init /\ [][Next]_vars

----------------------------------------------------------------------------
(* Whole runs of the pipeline drivers, up to their cycle caps *)

\* ADDI R1,R0,4096; JR R1 and no HALT: the fetch leaves the memory
ImageJumpOut == << IType(ADDI, 1, 0, 4096), IType(JR, 0, 1, 0) >>

\* BZ R0,0: a branch to itself
ImageSpin == << IType(BZ, 0, 0, 0) >>

LongImages == {ImageJumpOut, ImageSpin, ImageS2, ImageS3, ImageBranchStall}

\* main, lines 286-296 and 358 or 366: the program started in NF or WF mode
LongInit ==
    /\ \E img \in LongImages, m \in {"NF", "WF"} :
         LET s == StartRun(img, m)
         IN  /\ image = s.image
             /\ mode = s.mode
             /\ state = s.state
             /\ pipeline = s.pipeline
    /\ status = "running"
    /\ register_written = {}
    /\ memory_changed = {}
    /\ total_instructions = 0
    /\ arithmetic_instructions = 0
    /\ logical_instructions = 0
    /\ memory_access_instructions = 0
    /\ control_transfer_instructions = 0
    /\ pipeline_pc = 0
    /\ pipeline_halt_seen = FALSE
    /\ clock_cycles = 0
    /\ total_stalls = 0
    /\ total_flushes = 0
    /\ commits = <<>>
    /\ stop_reason = ""
    /\ final = [m \in Modes |-> NoReport]

LongNext == NFLoopPass \/ WFLoopPass

\* what every pass of a driver loop does to the cycle count and the run
LoopPassTaken ==
    /\ status = "running"
    /\ \/ /\ clock_cycles' = clock_cycles + 1
          /\ status' \in {"running", "done", "exited", "crashed"}
       \/ /\ clock_cycles' = clock_cycles
          /\ status' \in {"done", "exited", "crashed"}

\* the driver is a sequential loop: while the run goes on, its next pass is
\* taken
LongSpec ==
    LongInit /\ [][LongNext]_vars /\ WF_<<status, clock_cycles>>(LoopPassTaken)

----------------------------------------------------------------------------
(* The decoder on packed instruction records *)

\* the register numbers and immediates the records are built from
RecordRegs == {0, 1, 16, 31}
RecordImms == {-32768, -1, 0, 1, 32767}

\* the well-formed records: opcode ADD..HALT, the fields its class does not
\* use equal to 0
WellFormedRecords ==
    { [opcode |-> op, type |-> get_instruction_type(op), rs |-> rs, rt |-> rt,
       rd |-> IF get_instruction_type(op) = R_TYPE THEN x.rd ELSE 0,
       immediate |-> IF get_instruction_type(op) = R_TYPE THEN 0 ELSE x.imm] :
          op \in ADD..HALT, rs \in RecordRegs, rt \in RecordRegs,
          x \in [rd : RecordRegs, imm : RecordImms] }

\* the bit-field pack of a record
EncodeRecord(I) == encode(I.opcode, I.rs, I.rt, I.rd, I.immediate)

\* main, lines 286-296 and 358: the program started in NF mode on an image
\* whose first word is a packed record
DecoderInit ==
    /\ \E I \in WellFormedRecords :
         LET s == StartRun(<< EncodeRecord(I), HALT_WORD >>, "NF")
         IN  /\ image = s.image
             /\ mode = s.mode
             /\ state = s.state
             /\ pipeline = s.pipeline
    /\ status = "running"
    /\ register_written = {}
    /\ memory_changed = {}
    /\ total_instructions = 0
    /\ arithmetic_instructions = 0
    /\ logical_instructions = 0
    /\ memory_access_instructions = 0
    /\ control_transfer_instructions = 0
    /\ pipeline_pc = 0
    /\ pipeline_halt_seen = FALSE
    /\ clock_cycles = 0
    /\ total_stalls = 0
    /\ total_flushes = 0
    /\ commits = <<>>
    /\ stop_reason = ""
    /\ final = [m \in Modes |-> NoReport]

\* the fetch of the first cycle decodes the word; the run goes on from there
DecoderSpec == DecoderInit /\ [][NFCycle]_vars

----------------------------------------------------------------------------
(* The image file and its loader *)

\* a line of the image file that fscanf's %x rejects (no leading hex digit);
\* a line it accepts is [hex |-> TRUE, value |-> the word]
BadLine == [hex |-> FALSE, value |-> 0]

\* the while loop of read_memory_image: the words stored until fscanf fails,
\* at a rejected line or at the end of the file
RECURSIVE WordsRead(_)
WordsRead(lines) ==
    IF lines = <<>> \/ ~Head(lines).hex
    THEN <<>>
    ELSE <<Head(lines).value>> \o WordsRead(Tail(lines))

\* read_memory_image: its return value and the words it stored
read_memory_image(file) ==
    IF ~file.opens
    THEN [rc |-> -1, words |-> <<>>]
    ELSE IF Len(WordsRead(file.lines)) > MAX_MEMORY_LINES
    THEN [rc |-> -1, words |-> SubSeq(WordsRead(file.lines), 1, MAX_MEMORY_LINES)]
    ELSE [rc |-> Len(WordsRead(file.lines)), words |-> WordsRead(file.lines)]

\* the files given to main: a missing file, and every file of up to
\* MaxImageLen lines drawn from two instructions and a rejected line
ImageFiles ==
    {[opens |-> FALSE, lines |-> <<>>]} \cup
    {[opens |-> TRUE, lines |-> ls] :
        ls \in SeqsUpTo({[hex |-> TRUE, value |-> IType(ADDI, 1, 0, 5)],
                         [hex |-> TRUE, value |-> HALT_WORD],
                         BadLine}, MaxImageLen)}

\* main, lines 286-290: the state after initialize_machine_state, before the
\* image file is read; image holds the file
LoaderInit ==
    /\ image \in ImageFiles
    /\ \E m \in Modes :
         LET s == StartRun(<<>>, m)
         IN  /\ mode = s.mode
             /\ state = s.state
             /\ pipeline = s.pipeline
    /\ status = "loading"
    /\ register_written = {}
    /\ memory_changed = {}
    /\ total_instructions = 0
    /\ arithmetic_instructions = 0
    /\ logical_instructions = 0
    /\ memory_access_instructions = 0
    /\ control_transfer_instructions = 0
    /\ pipeline_pc = 0
    /\ pipeline_halt_seen = FALSE
    /\ clock_cycles = 0
    /\ total_stalls = 0
    /\ total_flushes = 0
    /\ commits = <<>>
    /\ stop_reason = ""
    /\ final = [m \in Modes |-> NoReport]

\* main, lines 292-296: the image is read; a negative return value ends the
\* program with status 1, any other starts the simulation on the words stored
MainLoad ==
    /\ status = "loading"
    /\ \E r \in {read_memory_image(image)} :
         /\ state' = [state EXCEPT !.memory = LoadImage(r.words)]
         /\ status' = IF r.rc < 0 THEN "exited" ELSE "running"
         /\ stop_reason' = IF r.rc < 0 THEN "load" ELSE ""
    /\ UNCHANGED <<image, mode, register_written, memory_changed,
                   total_instructions, arithmetic_instructions,
                   logical_instructions, memory_access_instructions,
                   control_transfer_instructions, pipeVars, commits, final>>

LoaderSpec == LoaderInit /\ [][MainLoad \/ FSStep \/ NFCycle \/ WFCycle]_vars

----------------------------------------------------------------------------
(* Dependent instructions in the pipeline *)

\* producers of R1 (immediate, register and load forms; each value differs),
\* instructions with rt = 1 that write no register, a write to R0, readers
\* of R1 through rs and through rt, and HALT with and without bits in rs
HazardPool ==
    { IType(ADDI, 1, 0, 4),         \* ADDI R1,R0,4
      RType(ADD, 1, 2, 2),          \* ADD  R1,R2,R2
      IType(LDW, 1, 0, 0),          \* LDW  R1,0(R0)
      IType(STW, 1, 0, 64),         \* STW  R1,64(R0)
      IType(BEQ, 1, 0, 1),          \* BEQ  R0,R1,+1
      IType(ADDI, 2, 1, 1),         \* ADDI R2,R1,1
      IType(ADDI, 0, 0, 5),         \* ADDI R0,R0,5
      IType(JR, 0, 1, 0),           \* JR   R1
      encode(HALT, 1, 0, 0, 0),     \* HALT, rs field 1
      HALT_WORD }

\* a pipelined run of three pool instructions
HazardInit ==
    /\ \E a \in HazardPool, b \in HazardPool, c \in HazardPool, m \in {"NF", "WF"} :
         LET s == StartRun(<<a, b, c>>, m)
         IN  /\ image = s.image
             /\ mode = s.mode
             /\ state = s.state
             /\ pipeline = s.pipeline
    /\ status = "running"
    /\ register_written = {}
    /\ memory_changed = {}
    /\ total_instructions = 0
    /\ arithmetic_instructions = 0
    /\ logical_instructions = 0
    /\ memory_access_instructions = 0
    /\ control_transfer_instructions = 0
    /\ pipeline_pc = 0
    /\ pipeline_halt_seen = FALSE
    /\ clock_cycles = 0
    /\ total_stalls = 0
    /\ total_flushes = 0
    /\ commits = <<>>
    /\ stop_reason = ""
    /\ final = [m \in Modes |-> NoReport]

HazardSpec == HazardInit /\ [][NFCycle \/ WFCycle]_vars

----------------------------------------------------------------------------
(* Properties *)

\* an instruction is about to be handed to simulate_instruction
HasPending ==
    /\ status = "running"
    /\ IF mode = "FS" THEN ULT(state.pc, MemBytes) ELSE Commits(pipeline[WB])

PendingInstr ==
    IF mode = "FS" THEN decode_instruction(MemRead(state.memory, state.pc \div 4))
    ELSE pipeline[WB].instr

\* WF only: a store in the MEM latch writes memory in this same cycle
WFStoreInMem ==
    mode = "WF" /\ WFMemActive(pipeline[MEM]) /\ pipeline[MEM].instr.opcode = STW

Finished(m) == final[m].status = "done"

SameFinalState(f1, f2) ==
    /\ f1.registers = f2.registers
    /\ MemEq(f1.memory, f2.memory)
    /\ f1.pc = f2.pc
    /\ f1.total_instructions = f2.total_instructions
    /\ f1.arithmetic_instructions = f2.arithmetic_instructions
    /\ f1.logical_instructions = f2.logical_instructions
    /\ f1.memory_access_instructions = f2.memory_access_instructions
    /\ f1.control_transfer_instructions = f2.control_transfer_instructions

IsPrefix(q, t) == Len(q) <= Len(t) /\ \A k \in 1..Len(q) : q[k] = t[k]

Bubble(latch) == ~latch.valid /\ is_nop(latch.instr)

\* C1: for every image, the runs in FS, NF and WF modes end with identical
\* registers, memory, final PC and identical values of the five instruction
\* counters.
C1_ModesAgree ==
    \A m \in {"NF", "WF"} :
        (Finished("FS") /\ Finished(m)) => SameFinalState(final["FS"], final[m])

\* C2: register R0 reads 0 after every commit in every mode, and in the
\* final register dump.
C2_R0IsZero ==
    /\ state.registers[0] = 0
    /\ \A m \in Modes : final[m].registers[0] = 0

\* C3: the instructions NF and WF commit are exactly the instructions FS
\* executes, in the same order: at any moment what a pipeline run has
\* retired is a prefix of the FS sequence, and a finished run has retired
\* all of it.
C3_CommitSequenceIsFS ==
    /\ (mode # "FS" /\ Finished("FS")) => IsPrefix(commits, final["FS"].commits)
    /\ \A m \in {"NF", "WF"} :
           (Finished("FS") /\ Finished(m)) => final[m].commits = final["FS"].commits

\* a cycle of a pipeline ran its stages, and the branch or jump in EX was taken
BranchTakenInEX ==
    /\ mode \in {"NF", "WF"} /\ status = "running"
    /\ clock_cycles' = clock_cycles + 1
    /\ status' \notin {"exited", "crashed"}
    /\ IF mode = "NF" THEN NFResolve(pipeline[EX], state'.registers).taken
       ELSE pipeline'[MEM].branch_taken

BranchTargetInEX ==
    IF mode = "NF" THEN NFResolve(pipeline[EX], state'.registers).target
    ELSE pipeline'[MEM].branch_target

\* C4: when a branch or jump in EX resolves as taken, in NF and in WF, the
\* fetch is redirected to the target, the two younger instructions (those
\* in IF and ID) have become bubbles by the end of the cycle, and
\* total_flushes grows by exactly 2, whether or not a stall is detected in
\* that cycle.
C4_TakenBranchFlushes ==
    [][BranchTakenInEX =>
          /\ total_flushes' = total_flushes + 2
          /\ Bubble(pipeline'[ID]) /\ Bubble(pipeline'[EX])
          /\ IF pipeline'[S_IF].valid
             THEN pipeline'[S_IF].pc = BranchTargetInEX
             ELSE pipeline_pc' = BranchTargetInEX]_vars

\* C5: a run that ends on a HALT fetched at address h has counted every
\* retired instruction, the HALT included, exactly once and reports the
\* final PC h + 4; an image whose first word is HALT ends with PC = 4.
C5_HaltFinalPC ==
    \A m \in Modes :
        final[m].stop_reason = "halt" =>
            /\ final[m].pc = Add32(final[m].commits[Len(final[m].commits)], 4)
            /\ final[m].total_instructions = Len(final[m].commits)

\* C6: the image of scenario S5 ends, in every mode, with R1 = 12 and
\* R2 = 99: the HALT at address 16 retires and the HALT at address 8 is
\* never committed.
C6_ScenarioS5 ==
    \A m \in Modes :
        (image = ImageS5 /\ final[m].status # "none") =>
            /\ final[m].status = "done"
            /\ final[m].registers[1] = 12
            /\ final[m].registers[2] = 99
            /\ final[m].stop_reason = "halt"
            /\ final[m].commits # <<>>
            /\ final[m].commits[Len(final[m].commits)] = 16
            /\ \A k \in 1..Len(final[m].commits) : final[m].commits[k] # 8

\* C7: in NF and WF the registers, the memory and the PC change only in the
\* commit at WB: a cycle with no instruction to commit in WB leaves the
\* registers alone, and, while the run goes on, the PC; the memory and
\* memory_changed are not modified before a store has reached WB.
C7_StateChangesOnlyAtCommit ==
    [][(mode \in {"NF", "WF"} /\ status = "running") =>
          /\ ~Commits(pipeline[WB]) => state'.registers = state.registers
          /\ (~Commits(pipeline[WB]) /\ status' = "running") => state'.pc = state.pc
          /\ ~(Commits(pipeline[WB]) /\ pipeline[WB].instr.opcode = STW) =>
                 /\ MemEq(state'.memory, state.memory)
                 /\ memory_changed' = memory_changed]_vars

\* C8: a word whose opcode is above 0x12 is treated as a NOP when it
\* commits: the process is not terminated, no register changes, and the
\* run goes on to the following instructions.
C8_UnknownOpcodeIsNop ==
    [][(HasPending /\ PendingInstr.type = INVALID_TYPE) =>
          /\ status' = "running"
          /\ state'.registers = state.registers]_vars

\* C9: an STW whose effective address is not a multiple of 4 leaves memory
\* and memory_changed unchanged when it commits (as the store to address 1
\* of scenario S6).
C9_UnalignedStoreIgnored ==
    [][(/\ HasPending /\ PendingInstr.opcode = STW
        /\ EffectiveAddress(state.registers, PendingInstr) % 4 # 0
        /\ ~WFStoreInMem) =>
          /\ MemEq(state'.memory, state.memory)
          /\ memory_changed' = memory_changed]_vars

\* C10: an LDW or STW whose effective address is outside [0, 4096) commits
\* without failing and without touching anything outside memory[0..1023]:
\* the load delivers 0, the store is suppressed, every other register and
\* the memory stay as they are.
C10_OutOfRangeAccessIsSafe ==
    [][(/\ HasPending /\ PendingInstr.opcode \in {LDW, STW}
        /\ ~InMemory(AccessIndex(state.registers, PendingInstr))
        /\ ~WFStoreInMem) =>
          /\ status' # "crashed"
          /\ \A r \in 0..31 :
                 state'.registers[r] =
                     IF PendingInstr.opcode = LDW /\ r = PendingInstr.rt THEN 0
                     ELSE state.registers[r]
          /\ MemEq(state'.memory, state.memory)
          /\ memory_changed' = memory_changed]_vars

\* C11: for every image the NF run takes at least as many clock cycles as
\* the WF run, and the WF run takes at least (instructions it committed) + 4
\* cycles.
C11_CycleOrdering ==
    (Finished("NF") /\ Finished("WF")) =>
        /\ final["NF"].clock_cycles >= final["WF"].clock_cycles
        /\ final["WF"].clock_cycles >= Len(final["WF"].commits) + 4

\* the four class counters together
ClassCounters ==
    arithmetic_instructions + logical_instructions
        + memory_access_instructions + control_transfer_instructions

\* the instructions a cycle of NF or WF retires: the one its WB latch holds,
\* and in NF the HALT that enters WB at the end of the cycle
Retirements ==
    (IF Commits(pipeline[WB]) THEN 1 ELSE 0)
        + (IF mode = "NF" /\ pipeline'[WB].valid /\ pipeline'[WB].instr.opcode = HALT
           THEN 1 ELSE 0)

\* C12: in NF and WF every retirement of a valid non-NOP instruction from WB
\* adds exactly 1 to total_instructions and exactly 1 to one class counter,
\* the HALT included, once; a cycle whose WB latch holds a bubble (which is
\* what a flush leaves of a squashed instruction) and that retires no HALT
\* changes none of the instruction counters.
C12_CountedOncePerRetirement ==
    [][(mode \in {"NF", "WF"} /\ status = "running"
        /\ status' \notin {"exited", "crashed"}) =>
          /\ total_instructions' = total_instructions + Retirements
          /\ ClassCounters' = ClassCounters + Retirements
          /\ arithmetic_instructions' >= arithmetic_instructions
          /\ logical_instructions' >= logical_instructions
          /\ memory_access_instructions' >= memory_access_instructions
          /\ control_transfer_instructions' >= control_transfer_instructions]_vars

\* a WF run that flushed ended on its HALT, after retiring other instructions
C12_Witness ==
    /\ mode = "WF" /\ status = "done" /\ stop_reason = "halt"
    /\ total_flushes > 0 /\ total_instructions > 1

\* C13: whenever an instruction has committed, in every mode,
\* total_instructions equals the sum of the four class counters; and the
\* commit of a NOP word changes none of the five counters.
C13_TotalIsSumOfClasses ==
    [][/\ status' \notin {"exited", "crashed"} => total_instructions' = ClassCounters'
       /\ (HasPending /\ PendingInstr.opcode = NOP) =>
              /\ total_instructions' = total_instructions
              /\ ClassCounters' = ClassCounters]_vars

\* a cycle of NF or WF ran its stages
CycleRan ==
    /\ mode \in {"NF", "WF"} /\ status = "running"
    /\ clock_cycles' = clock_cycles + 1
    /\ status' \notin {"exited", "crashed"}

\* the stall rule of the mode fires on the latches of this cycle
StallRuleFires ==
    /\ CycleRan
    /\ IF mode = "NF" THEN NFStall(pipeline) ELSE WFStall(pipeline)

CycleCap == IF mode = "NF" THEN CYCLE_CAP_NF ELSE CYCLE_CAP_WF

\* C15: the driver loop of NF and of WF terminates for every image: a pass
\* is only begun with clock_cycles at most the cap of the driver, and the
\* run is eventually left, on the HALT in WB, on the drained pipeline or on
\* the cycle cap (or the process has ended inside a commit).
C15_DriverTerminates ==
    /\ [](status = "running" => clock_cycles <= CycleCap)
    /\ <>(/\ status # "running"
          /\ status = "done" => stop_reason \in {"halt", "drain", "cap"})

\* a run that the cycle cap ended
C15_Witness == status = "done" /\ stop_reason = "cap" /\ clock_cycles > CycleCap

\* C16: neither NF nor WF gives a run up as divergent while clock_cycles is
\* at most 200000: a run ended by the cycle cap has counted more than
\* 200000 cycles.
C16_NoAbortUpTo200000 ==
    (mode \in {"NF", "WF"} /\ stop_reason = "cap") => clock_cycles > 200000

\* C17: an NF or WF run that the cycle cap stopped ends with a non-zero exit
\* status; the exit status is 0 only for a run left on the HALT or on the
\* drained pipeline.
C17_CapExitsNonZero ==
    (mode \in {"NF", "WF"} /\ status # "running") =>
        /\ stop_reason = "cap" => ExitStatus(status) # 0
        /\ ExitStatus(status) = 0 => stop_reason \in {"halt", "drain"}

\* a JR whose register holds an address outside the memory is about to commit
JumpOutPending ==
    /\ HasPending /\ PendingInstr.opcode = JR
    /\ ~ULT(state.registers[PendingInstr.rs], MemBytes)

\* C18: in every mode, when a JR commits with R[rs] >= 4096 the PC becomes
\* R[rs], nothing more is committed and the run ends normally with its final
\* state reported: the image ADDI R1,R0,4096; JR R1; HALT ends with PC = 4096
\* after its two commits.
C18_JumpOutOfMemory ==
    [][/\ JumpOutPending =>
              /\ state'.pc = state.registers[PendingInstr.rs]
              /\ status' \in {"running", "done"}
       /\ (image = ImageJumpOutHalt /\ status' # "running") =>
              /\ status' = "done"
              /\ final'[mode].pc = 4096
              /\ final'[mode].commits = <<0, 4>>]_vars

\* C19: after every commit, in every mode, the PC is a multiple of 4, also
\* after a JR and after a taken BZ or BEQ.
C19_PCIsWordAligned ==
    [][(HasPending /\ status' \notin {"exited", "crashed"}) =>
          state'.pc % WORD_SIZE = 0]_vars

\* the address the pending instruction was fetched from
PendingPC == IF mode = "FS" THEN state.pc ELSE pipeline[WB].pc

\* a BZ or BEQ whose condition holds is about to commit
TakenBranchPending ==
    /\ HasPending
    /\ \/ PendingInstr.opcode = BZ /\ state.registers[PendingInstr.rs] = 0
       \/ /\ PendingInstr.opcode = BEQ
          /\ state.registers[PendingInstr.rs] = state.registers[PendingInstr.rt]

\* the fetch goes on at address target
FetchRedirectedTo(target) ==
    \/ pipeline_pc' = target
    \/ /\ pipeline'[S_IF].valid /\ pipeline'[S_IF].pc = target
       /\ pipeline_pc' = Add32(target, 4)

\* C20: a taken BZ or BEQ fetched at p with immediate i sets the PC to
\* (p + 4i) mod 2^32 when it commits, in every mode, and in NF and WF the EX
\* stage that resolves it taken redirects the fetch to that same address;
\* nowhere is a further 4 added.
C20_BranchTarget ==
    [][/\ TakenBranchPending =>
              state'.pc = Add32(PendingPC, 4 * PendingInstr.immediate)
       /\ (BranchTakenInEX /\ pipeline[EX].instr.opcode \in {BZ, BEQ}) =>
              FetchRedirectedTo(Add32(pipeline[EX].pc,
                                      4 * pipeline[EX].instr.immediate))]_vars

\* C21: for every well-formed instruction record I (opcode ADD..HALT,
\* registers 0..31, immediate -32768..32767, unused fields 0),
\* decode_instruction(encode(I)) = I: the IF latch filled by the fetch of
\* the packed word holds I.
C21_DecodeEncode ==
    \A I \in WellFormedRecords :
        (clock_cycles = 1 /\ image[1] = EncodeRecord(I)) =>
            /\ pipeline[S_IF].valid
            /\ pipeline[S_IF].instr = I

\* the word of an I-class record with bit 15 of the immediate set has been
\* fetched and decoded
C21_Witness ==
    /\ clock_cycles = 1 /\ pipeline[S_IF].valid
    /\ pipeline[S_IF].instr.opcode = BEQ
    /\ pipeline[S_IF].instr.immediate = -32768
    /\ pipeline[S_IF].instr.rs = 31 /\ pipeline[S_IF].instr.rt = 16

\* what every mode must report for the image of scenario S1
S1FinalState(f) ==
    /\ f.status = "done" /\ f.stop_reason = "halt"
    /\ f.registers[1] = 5 /\ f.registers[2] = 7 /\ f.registers[3] = 12
    /\ f.total_instructions = 4 /\ f.commits = <<0, 4, 8, 12>>

\* C22 (as amended): for the image ADDI R1,R0,5; ADDI R2,R0,7; ADD R3,R1,R2;
\* HALT every mode ends with R1 = 5, R2 = 7, R3 = 12 and four instructions
\* committed; the WF run takes 8 cycles with no stall, and the NF run takes
\* 10 cycles with 2 stalls (the ADD waits in ID for the ADDI R2 before it).
C22_ScenarioS1 ==
    image = ImageS1 =>
        /\ \A m \in Modes : final[m].status # "none" => S1FinalState(final[m])
        /\ Finished("WF") =>
               final["WF"].clock_cycles = 8 /\ final["WF"].total_stalls = 0
        /\ Finished("NF") =>
               final["NF"].clock_cycles = 10 /\ final["NF"].total_stalls = 2

\* C22 as stated: the same final state, and 8 cycles with no stall in NF as
\* in WF.
C22_ScenarioS1_AsStated ==
    image = ImageS1 =>
        /\ \A m \in Modes : final[m].status # "none" => S1FinalState(final[m])
        /\ \A m \in {"NF", "WF"} :
               Finished(m) =>
                   final[m].clock_cycles = 8 /\ final[m].total_stalls = 0

\* the image of scenario S1 has been run in the three modes
C22_Witness == image = ImageS1 /\ \A m \in Modes : Finished(m)

\* C23 (as amended): for the image ADDI R1,R0,3; SUBI R1,R1,1; BZ R1,-2;
\* HALT the BZ finds R1 = 2 and is not taken: every mode ends on the HALT
\* with R1 = 2 after four commits, no branch is taken and flushes = 0 in NF
\* and WF.
C23_ScenarioS4 ==
    image = ImageS4 =>
        /\ \A m \in Modes :
               final[m].status # "none" =>
                   /\ final[m].status = "done" /\ final[m].stop_reason = "halt"
                   /\ final[m].registers[1] = 2
                   /\ final[m].commits = <<0, 4, 8, 12>>
                   /\ final[m].total_flushes = 0
        /\ mode \in {"NF", "WF"} => total_flushes = 0

\* C23 as stated: the run ends with R1 = 0 after two taken branches, and
\* flushes = 4 in NF and WF.
C23_ScenarioS4_AsStated ==
    image = ImageS4 =>
        /\ \A m \in Modes : final[m].status # "none" => final[m].registers[1] = 0
        /\ \A m \in {"NF", "WF"} : Finished(m) => final[m].total_flushes = 4

\* the image of scenario S4 has been run in the three modes
C23_Witness == image = ImageS4 /\ \A m \in Modes : Finished(m)

SourceRegs(i) ==
    ({i.rs} \cup (IF i.opcode \in {ADD, SUB, MUL, OR, AND, XOR, BEQ, STW}
                  THEN {i.rt} ELSE {})) \ {0}

\* the latch holds a valid instruction that writes register r
Produces(latch, r) ==
    /\ latch.valid
    /\ \/ latch.instr.opcode \in {ADD, SUB, MUL, OR, AND, XOR} /\ latch.instr.rd = r
       \/ /\ latch.instr.opcode \in {ADDI, SUBI, MULI, ORI, ANDI, XORI, LDW}
          /\ latch.instr.rt = r

\* a cycle of the NF pipeline ran and was counted as a stall
NFStallCycle == mode = "NF" /\ CycleRan /\ total_stalls' = total_stalls + 1

\* C25 (amended): an NF cycle is a stall cycle exactly when ID holds a valid
\* instruction that is neither NOP nor HALT and one of its non-zero sources
\* (rs; rt when R-class, BEQ or STW) is the destination of a valid
\* register-writing instruction in EX or MEM. Producers in WB, and branches,
\* STW, HALT and bubbles in EX or MEM, never stall, and neither does a HALT
\* in ID whatever its rs field holds.
C25_NFStallRule ==
    [][(mode = "NF" /\ CycleRan) =>
          (NFStallCycle <=>
               /\ pipeline[ID].valid
               /\ pipeline[ID].instr.opcode \notin {NOP, HALT}
               /\ \E r \in SourceRegs(pipeline[ID].instr) :
                      Produces(pipeline[EX], r) \/ Produces(pipeline[MEM], r))]_vars

\* C25 (as stated): rs counts as a source of every valid non-NOP instruction
\* in ID
C25_NFStallRule_AsStated ==
    [][(mode = "NF" /\ CycleRan) =>
          (NFStallCycle <=>
               /\ pipeline[ID].valid
               /\ pipeline[ID].instr.opcode # NOP
               /\ \E r \in SourceRegs(pipeline[ID].instr) :
                      Produces(pipeline[EX], r) \/ Produces(pipeline[MEM], r))]_vars

\* after a first stall: the consumer is still in ID, its producer has moved
\* to MEM and EX holds the bubble
C25_Witness ==
    /\ mode = "NF" /\ total_stalls = 1
    /\ pipeline[ID].valid /\ Bubble(pipeline[EX])
    /\ \E r \in SourceRegs(pipeline[ID].instr) : Produces(pipeline[MEM], r)

\* two latches hold the same instruction: the decoded word, its address and
\* the valid flag (the WF stages fill in result_val as the instruction moves)
SameInstruction(l1, l2) ==
    l1.instr = l2.instr /\ l1.pc = l2.pc /\ l1.valid = l2.valid

\* C26 (as stated): in a stall cycle of NF or WF the IF and ID latches, the
\* fetch PC and the halt flag are left as they were, EX becomes a bubble, MEM
\* takes what EX held and WB what MEM held, and total_stalls grows by 1
C26_StallCycleFrame ==
    [][StallRuleFires =>
          /\ SameInstruction(pipeline'[S_IF], pipeline[S_IF])
          /\ SameInstruction(pipeline'[ID], pipeline[ID])
          /\ pipeline_pc' = pipeline_pc
          /\ pipeline_halt_seen' = pipeline_halt_seen
          /\ Bubble(pipeline'[EX])
          /\ SameInstruction(pipeline'[MEM], pipeline[EX])
          /\ SameInstruction(pipeline'[WB], pipeline[MEM])
          /\ total_stalls' = total_stalls + 1]_vars

\* ID holds a valid instruction other than NOP and HALT one of whose sources
\* is written by the instruction in the given latch
ConsumerOf(latch) ==
    /\ pipeline[ID].valid
    /\ pipeline[ID].instr.opcode \notin {NOP, HALT}
    /\ \E r \in SourceRegs(pipeline[ID].instr) : Produces(latch, r)

\* C27: in NF a consumer in ID whose nearest producer is in EX is held by a
\* stall cycle that leaves it in ID with the producer in MEM behind a bubble;
\* a consumer in ID whose nearest producer is in MEM is held by one stall
\* cycle, after which the rule no longer fires: two consecutive stall cycles
\* in the first case, one in the second. The image ADDI R1,R0,5;
\* ADD R2,R1,R1; HALT ends with R1 = 5 and R2 = 10, 2 stalls in NF and 0 in WF.
C27_StallCounts ==
    /\ [][(mode = "NF" /\ CycleRan) =>
            /\ ConsumerOf(pipeline[EX]) =>
                  /\ NFStallCycle
                  /\ SameInstruction(pipeline'[ID], pipeline[ID])
                  /\ SameInstruction(pipeline'[MEM], pipeline[EX])
                  /\ Bubble(pipeline'[EX])
                  /\ NFStall(pipeline')
            /\ (ConsumerOf(pipeline[MEM]) /\ ~ConsumerOf(pipeline[EX])) =>
                  /\ NFStallCycle
                  /\ SameInstruction(pipeline'[ID], pipeline[ID])
                  /\ SameInstruction(pipeline'[WB], pipeline[MEM])
                  /\ ~NFStall(pipeline')]_vars
    /\ [](image = ImageS2 =>
            /\ Finished("NF") =>
                  /\ final["NF"].registers[1] = 5 /\ final["NF"].registers[2] = 10
                  /\ final["NF"].total_stalls = 2
            /\ Finished("WF") =>
                  /\ final["WF"].registers[1] = 5 /\ final["WF"].registers[2] = 10
                  /\ final["WF"].total_stalls = 0)

\* the ADD of that image after its second stall: still in ID, the ADDI now
\* in WB, nothing left to wait for
C27_Witness ==
    /\ image = ImageS2 /\ mode = "NF" /\ total_stalls = 2
    /\ pipeline[ID].valid /\ pipeline[ID].instr.opcode = ADD
    /\ Produces(pipeline[WB], 1)
    /\ ~NFStall(pipeline)

\* C28 (as stated): a WF cycle is a stall cycle exactly when EX holds a valid
\* LDW with a non-zero destination rt and ID holds a valid instruction that
\* reads that register (rs; rt when R-class, BEQ or STW); HALT reads no
\* register and never stalls; after the stall cycle the rule no longer fires,
\* so a load-use dependency costs one stall cycle
C28_WFStallRule ==
    [][(mode = "WF" /\ CycleRan) =>
          /\ (total_stalls' = total_stalls + 1) <=>
                 /\ pipeline[EX].valid /\ pipeline[EX].instr.opcode = LDW
                 /\ ConsumerOf(pipeline[EX])
          /\ (total_stalls' = total_stalls + 1) => ~WFStall(pipeline')]_vars

\* the value the EX stage of this cycle is to use for source register r: the
\* result held by MEM (for an LDW, the word its MEM stage reads in this
\* cycle) when r is not R0 and MEM holds a valid writer of r; else the result
\* held by WB under the same condition; else the register file as the WB
\* stage of this cycle leaves it
ForwardedValue(r) ==
    IF r # 0 /\ Produces(pipeline[MEM], r)
    THEN WFMemLoad(pipeline, state'.memory)[MEM].result_val
    ELSE IF r # 0 /\ Produces(pipeline[WB], r)
    THEN pipeline[WB].result_val
    ELSE state'.registers[r]

\* what the instruction leaving EX shows of its operands
ExUsed(ex, out) ==
    CASE ex.instr.opcode = ADD ->
             out.result_val = Add32(ForwardedValue(ex.instr.rs), ForwardedValue(ex.instr.rt))
      [] ex.instr.opcode = ADDI ->
             out.result_val = Add32(ForwardedValue(ex.instr.rs), ex.instr.immediate)
      [] ex.instr.opcode = STW ->
             /\ out.result_val = ForwardedValue(ex.instr.rt)
             /\ out.branch_target = Add32(ForwardedValue(ex.instr.rs), ex.instr.immediate)
      [] ex.instr.opcode = LDW ->
             out.branch_target = Add32(ForwardedValue(ex.instr.rs), ex.instr.immediate)
      [] ex.instr.opcode = BEQ ->
             out.branch_taken = (ForwardedValue(ex.instr.rs) = ForwardedValue(ex.instr.rt))
      [] ex.instr.opcode = BZ ->
             out.branch_taken = (ForwardedValue(ex.instr.rs) = 0)
      [] ex.instr.opcode = JR ->
             out.branch_target = ForwardedValue(ex.instr.rs)
      [] OTHER -> TRUE

\* C29: in every WF cycle the instruction in EX computes with operands taken
\* from the MEM latch when MEM holds a valid writer of that non-zero source,
\* else from the WB latch under the same condition, else from the register
\* file; rt is forwarded for R-class, BEQ and STW; R0 and instructions that
\* write no register are never forwarded
C29_ForwardingPriority ==
    [][(mode = "WF" /\ CycleRan /\ pipeline[EX].valid) =>
          /\ SameInstruction(pipeline'[MEM], pipeline[EX])
          /\ ExUsed(pipeline[EX], pipeline'[MEM])]_vars

\* ADD R1,R2,R2; ADDI R1,R0,4; ADDI R2,R1,1 after the third has left EX: both
\* older instructions wrote R1, and 4 + 1 was computed from the nearer one
C29_Witness ==
    /\ mode = "WF"
    /\ image = << RType(ADD, 1, 2, 2), IType(ADDI, 1, 0, 4), IType(ADDI, 2, 1, 1) >>
    /\ pipeline[MEM].valid /\ pipeline[MEM].pc = 8 /\ pipeline[MEM].result_val = 5
    /\ pipeline[WB].valid /\ pipeline[WB].pc = 4 /\ pipeline[WB].result_val = 4

\* C30 (as stated): when an ORI, ANDI or XORI commits in WF, the value its EX
\* stage left in result_val (the value dependent instructions were forwarded)
\* is the value the commit writes to the destination register
C30_LogicalImmediateResult ==
    [][(/\ mode = "WF" /\ CycleRan
        /\ pipeline[WB].valid
        /\ pipeline[WB].instr.opcode \in {ORI, ANDI, XORI}
        /\ pipeline[WB].instr.rt # 0) =>
          state'.registers[pipeline[WB].instr.rt] = pipeline[WB].result_val]_vars

\* a cycle in which nothing is fetched: IF is left a bubble, or held as it
\* was by a stall, and the fetch PC stays or is redirected by the branch in EX
NoFetch ==
    /\ Bubble(pipeline'[S_IF]) \/ pipeline'[S_IF] = pipeline[S_IF]
    /\ \/ pipeline_pc' = pipeline_pc
       \/ BranchTakenInEX /\ pipeline_pc' = BranchTargetInEX

\* C31: in NF and WF the cycle that fetches a HALT into IF sets the halt
\* flag, and from a state with the flag set every cycle of the run keeps the
\* flag and fetches nothing: after a HALT has entered IF, IF receives only
\* bubbles and the fetch PC never advances by a fetch
C31_NoFetchAfterHalt ==
    [][(mode \in {"NF", "WF"} /\ CycleRan) =>
          /\ (pipeline'[S_IF].valid /\ pipeline'[S_IF].instr.opcode = HALT) =>
                 pipeline_halt_seen'
          /\ pipeline_halt_seen => (pipeline_halt_seen' /\ NoFetch)]_vars

\* the fetched HALT has been squashed by a taken branch, memory lies ahead
\* of the fetch PC, and the run goes on with the flag set
C31_Witness ==
    /\ mode \in {"NF", "WF"} /\ status = "running"
    /\ pipeline_halt_seen /\ ULT(pipeline_pc, MemBytes)
    /\ total_flushes > 0
    /\ \A i \in Stages : ~(pipeline[i].valid /\ pipeline[i].instr.opcode = HALT)
    /\ Bubble(pipeline[S_IF])

\* C32: when the NF or WF driver stops on a HALT in write-back, IF, ID, EX
\* and MEM hold bubbles, so no fetched instruction is left uncommitted in a
\* latch; when it stops by draining, all five latches hold bubbles
C32_LatchesAtStop ==
    (mode \in {"NF", "WF"} /\ status = "done") =>
        /\ stop_reason = "halt" =>
               /\ pipeline[WB].valid /\ pipeline[WB].instr.opcode = HALT
               /\ \A i \in Stages \ {WB} : Bubble(pipeline[i])
        /\ stop_reason = "drain" => \A i \in Stages : Bubble(pipeline[i])

\* a run that lost its fetched HALT to a taken branch and stopped by draining
C32_Witness ==
    /\ mode \in {"NF", "WF"} /\ status = "done" /\ stop_reason = "drain"
    /\ total_flushes > 0
    /\ Len(commits) > 0

\* the BZ or BEQ in EX compares unequal on the values its mode gives it: the
\* register file in NF, the forwarded operands in WF
UntakenBranchInEX ==
    /\ CycleRan
    /\ pipeline[EX].valid /\ pipeline[EX].instr.opcode \in {BZ, BEQ}
    /\ LET a == IF mode = "NF" THEN state'.registers[pipeline[EX].instr.rs]
                ELSE ForwardedValue(pipeline[EX].instr.rs)
           b == IF pipeline[EX].instr.opcode = BZ THEN 0
                ELSE IF mode = "NF" THEN state'.registers[pipeline[EX].instr.rt]
                ELSE ForwardedValue(pipeline[EX].instr.rt)
       IN  a # b

\* C33: in a cycle of NF or WF in which the BZ or BEQ in EX resolves not
\* taken, total_flushes stays, the fetch PC stays or advances by the fetch of
\* one word, the branch moves on to MEM, and IF and ID behave as without a
\* branch: held, with a bubble into EX, when the stall rule fires, otherwise
\* ID moves to EX and IF to ID
C33_UntakenBranchNoPenalty ==
    [][UntakenBranchInEX =>
          /\ total_flushes' = total_flushes
          /\ pipeline_pc' \in {pipeline_pc, Add32(pipeline_pc, WORD_SIZE)}
          /\ SameInstruction(pipeline'[MEM], pipeline[EX])
          /\ ~pipeline'[MEM].branch_taken
          /\ IF StallRuleFires
             THEN /\ SameInstruction(pipeline'[ID], pipeline[ID])
                  /\ SameInstruction(pipeline'[S_IF], pipeline[S_IF])
                  /\ Bubble(pipeline'[EX])
             ELSE /\ SameInstruction(pipeline'[EX], pipeline[ID])
                  /\ SameInstruction(pipeline'[ID], pipeline[S_IF])]_vars

\* the untaken BEQ R0,R1,+1 has just left EX behind ADDI R1,R0,4, and the
\* two instructions that followed it moved up
C33_Witness ==
    /\ mode \in {"NF", "WF"} /\ status = "running"
    /\ total_flushes = 0
    /\ pipeline[MEM].valid /\ pipeline[MEM].instr.opcode = BEQ
    /\ state.registers[1] = 4
    /\ pipeline[EX].valid /\ pipeline[ID].valid

\* the commit of instruction i leaves every register but those of keep, and
\* every memory word and flag, as they were
CommitKeeps(keep) ==
    /\ \A r \in (0..31) \ keep : state'.registers[r] = state.registers[r]
    /\ MemEq(state'.memory, state.memory)
    /\ memory_changed' = memory_changed

\* the commit of a store to word index a: that word becomes v, its flag is
\* set, nothing else changes
StoreCommits(a, v) ==
    /\ state'.registers = state.registers
    /\ \A j \in 0..(MAX_MEMORY_LINES - 1) :
           MemRead(state'.memory, j) = IF j = a THEN v ELSE MemRead(state.memory, j)
    /\ memory_changed' = memory_changed \cup {a}

\* C34: a commit by the executor (an FS step, an NF write-back) of an R-class
\* instruction changes at most register rd, of ADDI, SUBI, MULI, ORI, ANDI,
\* XORI or LDW at most register rt, and no memory word; of an STW with an
\* aligned address inside [0, 4096) exactly memory word a/4, to R[rt], and
\* its memory_changed flag, and no register; of BZ, BEQ, JR, HALT or NOP no
\* register and no memory word
C34_CommitFrame ==
    [][(HasPending /\ mode # "WF" /\ status' \notin {"exited", "crashed"}) =>
          CASE PendingInstr.opcode \in {ADD, SUB, MUL, OR, AND, XOR} ->
                   CommitKeeps({PendingInstr.rd})
            [] PendingInstr.opcode \in {ADDI, SUBI, MULI, ORI, ANDI, XORI, LDW} ->
                   CommitKeeps({PendingInstr.rt})
            [] PendingInstr.opcode = STW ->
                   (/\ EffectiveAddress(state.registers, PendingInstr) % 4 = 0
                    /\ ULT(EffectiveAddress(state.registers, PendingInstr), MemBytes)) =>
                       StoreCommits(EffectiveAddress(state.registers, PendingInstr) \div 4,
                                    state.registers[PendingInstr.rt])
            [] PendingInstr.opcode \in {BZ, BEQ, JR, HALT, NOP} ->
                   CommitKeeps({})
            [] OTHER -> TRUE]_vars

\* FS has committed ADDI R1,R0,5 and STW R1,64(R0): word 16 holds 5 and is
\* the one word flagged
C34_Witness ==
    /\ mode = "FS" /\ status = "running"
    /\ memory_changed = {16} /\ MemRead(state.memory, 16) = 5
    /\ state.registers[1] = 5 /\ total_instructions = 2

\* C35 (as stated): an NF or WF run that ends with the HALT in write-back
\* reports clock_cycles = total_instructions + 4 + total_stalls + total_flushes
C35_CycleCount ==
    \A m \in {"NF", "WF"} :
        (final[m].status = "done" /\ final[m].stop_reason = "halt") =>
            final[m].clock_cycles =
                final[m].total_instructions + 4
                + final[m].total_stalls + final[m].total_flushes

\* what the EX stage decided, one cycle ago, for the branch or jump now in
\* MEM: in NF the decision taken on the register file as it still is, in WF
\* the decision the latch carries
DecidedInEX ==
    IF mode = "NF" THEN NFResolve(pipeline[MEM], state.registers)
    ELSE [taken |-> pipeline[MEM].branch_taken, target |-> pipeline[MEM].branch_target]

\* what simulate_instruction decides for the branch or jump of latch l when
\* it commits from address l.pc on registers regs
DecidedAtCommit(l, regs) ==
    CASE l.instr.opcode = BZ ->
             [taken |-> regs[l.instr.rs] = 0,
              target |-> Add32(l.pc, l.instr.immediate * 4)]
      [] l.instr.opcode = BEQ ->
             [taken |-> regs[l.instr.rs] = regs[l.instr.rt],
              target |-> Add32(l.pc, l.instr.immediate * 4)]
      [] OTHER ->
             [taken |-> TRUE, target |-> regs[l.instr.rs]]

\* C36 (as stated): a BZ, BEQ or JR in MEM commits in the next cycle, on the
\* registers this cycle's write-back leaves; the outcome the executor then
\* computes, and the target when taken, are those its EX stage decided
C36_BranchDecisionAgrees ==
    [][(/\ mode \in {"NF", "WF"} /\ CycleRan /\ status' = "running"
        /\ pipeline[MEM].valid /\ pipeline[MEM].instr.opcode \in {BZ, BEQ, JR}) =>
          /\ DecidedAtCommit(pipeline[MEM], state'.registers).taken = DecidedInEX.taken
          /\ DecidedInEX.taken =>
                 DecidedAtCommit(pipeline[MEM], state'.registers).target
                     = DecidedInEX.target]_vars

\* a HALT word held in IF or ID is squashed by this cycle's taken branch or
\* jump
HaltSquashed ==
    /\ BranchTakenInEX
    /\ \E i \in {S_IF, ID} : pipeline[i].valid /\ pipeline[i].instr.opcode = HALT
    /\ \A i \in Stages : ~(pipeline'[i].valid /\ pipeline'[i].instr.opcode = HALT)

\* C37 (as stated): when a HALT in IF or ID is squashed by a taken branch or
\* jump the fetch goes on at the target (the fetch is not left switched off),
\* and so every image whose FS run retires a HALT has its NF and WF runs
\* retire that HALT too
C37_SquashedHaltResumes ==
    /\ [][HaltSquashed =>
             (~pipeline_halt_seen' /\ FetchRedirectedTo(BranchTargetInEX))]_vars
    /\ [](\A m \in {"NF", "WF"} :
             (final["FS"].stop_reason = "halt" /\ Finished(m)) =>
                 final[m].stop_reason = "halt")

\* a pass of the FS loop that executed an instruction and left the loop on
FSPassGoesOn ==
    /\ mode = "FS" /\ status = "running" /\ status' = "running"
    /\ total_instructions' = total_instructions + 1

\* C38 (as stated): the FS loop terminates for every image. What a pass does
\* is a function of the PC, the registers and the memory alone, so a loop
\* that always terminates never ends a pass it goes on after with these
\* three as they were when the pass began: from there it would repeat the
\* pass for ever, as a branch to itself does.
C38_FSLoopTerminates ==
    [][FSPassGoesOn =>
          ~(/\ state'.pc = state.pc
            /\ state'.registers = state.registers
            /\ MemEq(state'.memory, state.memory))]_vars

\* C39: in WF no cycle has both the load-use stall and the flush of a taken
\* branch or jump: the stall needs an LDW in EX, the flush a BZ, BEQ or JR
\* there, so no cycle counts a stall and a flush together.
C39_StallAndFlushApart ==
    [][(mode = "WF" /\ CycleRan) =>
          ~(/\ StallRuleFires \/ total_stalls' # total_stalls
            /\ BranchTakenInEX \/ total_flushes' # total_flushes)]_vars

\* a WF run that has stalled on a load and, in another cycle, flushed
C39_Witness ==
    /\ mode = "WF" /\ total_stalls > 0 /\ total_flushes > 0

\* the word the executor writes for the STW now in MEM when it commits from
\* WB in the next cycle, on the registers this cycle's write-back leaves
CommitStoreIndex == AccessIndex(state'.registers, pipeline[MEM].instr)
CommitStoreValue == state'.registers[pipeline[MEM].instr.rt]

\* C40 (as stated): in WF the MEM stage writes, for an STW, the word and the
\* value the executor writes when the STW commits one cycle later, and it
\* leaves the write out exactly when the executor has no word to write.
C40_MemStageStoreAgrees ==
    [][(WFStoreInMem /\ CycleRan /\ status' = "running") =>
          /\ WFMemAddressOk(pipeline[MEM].branch_target) <=> InMemory(CommitStoreIndex)
          /\ WFMemAddressOk(pipeline[MEM].branch_target) =>
                 /\ pipeline[MEM].branch_target \div 4 = CommitStoreIndex
                 /\ pipeline[MEM].result_val = CommitStoreValue]_vars

====
